---- MODULE Spec2Model ----
(***************************************************************************)
(* A model of zyte's server-side renderer (src/src/index.ts, class         *)
(* ZyteSSR) and of the HTTP handler with its in-memory response cache      *)
(* (src/src/server.ts, startServer).                                       *)
(*                                                                         *)
(* Strings are sequences of pieces.  Every character that some operation   *)
(* of the program inspects ("/", "{", "}", "(", ")", ",", ".", "|", quotes,*)
(* blanks, digits, the letters of keywords) is a piece of its own; a run   *)
(* of text that no operation looks into may stand as one piece.            *)
(***************************************************************************)
EXTENDS Integers, Sequences, FiniteSets, TLC

VARIABLES
  options,     \* finalOptions: [cacheEnabled]                     (server.ts:92)
  routes,      \* ZyteSSR.routes, an insertion-ordered Map         (index.ts:24)
  ssrCache,    \* ssrCache: path -> [content, timestamp]           (server.ts:5)
  now,         \* the clock read by Date.now()
  phase,       \* position of startServer: "created", "warming", "listening"
  warmQueue,   \* keys the warming loop has still to visit         (server.ts:110)
  reqs,        \* the in-flight calls of handler(request)          (server.ts:126)
  warmed,      \* history: keys the warming loop stored an entry for
  seen,        \* history: pages of the project a cacheable request has come for
  warmLog,     \* history: the turns of the warming loop, what each did
  scan,        \* one construction of ZyteSSR: route discovery      (index.ts:28)
  dev,         \* the dev server: triggerBuild's flags and builds     (cli.ts:452)
  files,       \* the files on disk
  rend,        \* one call of ZyteSSR.render                       (index.ts:74)
  call         \* one call of parseTemplateArgs, evaluateExpression
               \* or processTemplate

serverVars == <<options, routes, ssrCache, now, phase, warmQueue, reqs, warmed, seen, warmLog>>

vars == <<serverVars, scan, dev, files, rend, call>>

-----------------------------------------------------------------------------
(* Bounds of the model *)

MaxTime == 3        \* the clock stops ticking here

\* finalOptions.cacheMaxAge ?? 5 * 60000: the default of five minutes, the
\* clock of the model counting in steps of two and a half minutes.
CACHE_MAX_AGE_MS == 2

-----------------------------------------------------------------------------
(* Generic helpers for JavaScript Map objects and strings *)

EmptyMap == [x \in {} |-> x]

MapHas(m, k) == k \in DOMAIN m

MapSetIfAbsent(m, k, v) ==
  IF k \in DOMAIN m THEN m ELSE [x \in (DOMAIN m) \cup {k} |-> IF x = k THEN v ELSE m[x]]

MapSet(m, k, v) == [x \in (DOMAIN m) \cup {k} |-> IF x = k THEN v ELSE m[x]]

MapDelete(m, k) == [x \in (DOMAIN m) \ {k} |-> m[x]]

StartsWith(s, p) == Len(s) >= Len(p) /\ SubSeq(s, 1, Len(p)) = p

EndsWith(s, p) == Len(s) >= Len(p) /\ SubSeq(s, Len(s) - Len(p) + 1, Len(s)) = p

\* s.slice(n): the string without its first n pieces
SliceFrom(s, n) == SubSeq(s, n + 1, Len(s))

-----------------------------------------------------------------------------
(* JavaScript values and strings, as the template engine uses them *)

Str(s) == [t |-> "string", s |-> s]

\* the number n / 10^k
Num(n, k) == [t |-> "number", n |-> n, k |-> k]

NaN == [t |-> "number", nan |-> TRUE]

Infinity(sign) == [t |-> "number", inf |-> sign]

Bool(b) == [t |-> "boolean", b |-> b]

Null == [t |-> "null"]

Undefined == [t |-> "undefined"]

\* an exported function; impl names its body
Fn(impl) == [t |-> "function", impl |-> impl]

\* an object with the own properties DOMAIN f
Obj(f) == [t |-> "object", f |-> f]

Blank == {" ", "\t", "\n"}

Digits == <<"0", "1", "2", "3", "4", "5", "6", "7", "8", "9">>

IsDigit(c) == \E i \in 1..Len(Digits) : Digits[i] = c

DigitValue(c) == (CHOOSE i \in 1..Len(Digits) : Digits[i] = c) - 1

\* The names that occur in templates; each is a run of letters and one piece.
Identifiers ==
  { "query", "params", "headers", "true", "false", "null", "undefined", "Infinity",
    "x", "q", "p", "h", "e", "a", "missing", "count", "pageData", "author",
    "greet", "throwsError", "rejects", "appPage", "notAFunction", "raw", "nothing",
    "World", "str", "fallback", "hi" }

\* \w
IsWordPiece(c) == IsDigit(c) \/ c = "_" \/ c \in Identifiers

RECURSIVE TrimStart(_)
TrimStart(s) == IF s # <<>> /\ Head(s) \in Blank THEN TrimStart(Tail(s)) ELSE s

RECURSIVE TrimEnd(_)
TrimEnd(s) ==
  IF s # <<>> /\ s[Len(s)] \in Blank THEN TrimEnd(SubSeq(s, 1, Len(s) - 1)) ELSE s

\* String.prototype.trim
Trim(s) == TrimEnd(TrimStart(s))

\* s.indexOf(sep): the first index at which sep occurs in s, 0 when it does not
IndexOf(s, sep) ==
  LET at == {i \in 1..(Len(s) - Len(sep) + 1) : SubSeq(s, i, i + Len(sep) - 1) = sep}
  IN  IF at = {} THEN 0 ELSE CHOOSE i \in at : \A j \in at : i <= j

Includes(s, sep) == IndexOf(s, sep) # 0

\* s.split(sep), sep not empty
RECURSIVE Split(_, _)
Split(s, sep) ==
  LET i == IndexOf(s, sep)
  IN  IF i = 0 THEN <<s>>
      ELSE <<SubSeq(s, 1, i - 1)>> \o Split(SubSeq(s, i + Len(sep), Len(s)), sep)

\* s.slice(1, -1)
Unquote(s) == SubSeq(s, 2, Len(s) - 1)

RECURSIVE DigitsValue(_)
DigitsValue(ds) ==
  IF ds = <<>> THEN 0
  ELSE 10 * DigitsValue(SubSeq(ds, 1, Len(ds) - 1)) + DigitValue(ds[Len(ds)])

RECURSIVE StripZeros(_)
StripZeros(ds) ==
  IF ds # <<>> /\ ds[Len(ds)] = "0" THEN StripZeros(SubSeq(ds, 1, Len(ds) - 1)) ELSE ds

AllDigits(ds) == \A i \in 1..Len(ds) : IsDigit(ds[i])

\* Number(s) for the strings of the model: blanks are trimmed, the empty
\* string is 0, then an optional sign and Infinity or a decimal literal
\* (digits, digits.digits, digits., .digits); anything else is NaN.  (The
\* model has no exponent, hexadecimal, octal or binary literals.)
Number(s) ==
  LET t == Trim(s)
      signed == t # <<>> /\ Head(t) \in {"+", "-"}
      sign == IF signed /\ Head(t) = "-" THEN -1 ELSE 1
      body == IF signed THEN Tail(t) ELSE t
      dot == IndexOf(body, <<".">>)
      int == IF dot = 0 THEN body ELSE SubSeq(body, 1, dot - 1)
      frac == IF dot = 0 THEN <<>> ELSE StripZeros(SubSeq(body, dot + 1, Len(body)))
  IN  IF t = <<>> THEN Num(0, 0)
      ELSE IF body = <<"Infinity">> THEN Infinity(sign)
      ELSE IF AllDigits(int) /\ AllDigits(frac)
              /\ (int # <<>> \/ (dot # 0 /\ Len(body) > dot))
      THEN Num(sign * DigitsValue(int \o frac), Len(frac))
      ELSE NaN

RECURSIVE NatToString(_)
NatToString(n) ==
  IF n < 10 THEN <<Digits[n + 1]>> ELSE NatToString(n \div 10) \o <<Digits[(n % 10) + 1]>>

\* String(value), as string concatenation applies it
StringOf(v) ==
  CASE v.t = "string" -> v.s
    [] v.t = "number" ->
         IF v = NaN THEN <<"NaN">>
         ELSE IF "inf" \in DOMAIN v
         THEN (IF v.inf < 0 THEN <<"-">> ELSE <<>>) \o <<"Infinity">>
         ELSE LET abs == IF v.n < 0 THEN -v.n ELSE v.n
                  ds == NatToString(abs)
                  padded == IF Len(ds) > v.k THEN ds
                            ELSE [i \in 1..(v.k + 1) |->
                                    IF i <= v.k + 1 - Len(ds) THEN "0"
                                    ELSE ds[i - (v.k + 1 - Len(ds))]]
                  whole == SubSeq(padded, 1, Len(padded) - v.k)
                  frac == SubSeq(padded, Len(padded) - v.k + 1, Len(padded))
              IN  (IF v.n < 0 THEN <<"-">> ELSE <<>>) \o whole
                  \o (IF v.k > 0 THEN <<".">> \o frac ELSE <<>>)
    [] v.t = "boolean" -> IF v.b THEN <<"true">> ELSE <<"false">>
    [] v.t = "null" -> <<"null">>
    [] v.t = "undefined" -> <<"undefined">>
    [] v.t = "function" -> <<"function ", v.impl, "() { ... }">>
    [] v.t = "object" -> <<"[object Object]">>

TruthyUnlessNullish(v) == v.t \notin {"null", "undefined"}

\* if (value): JavaScript truthiness
Truthy(v) ==
  CASE v.t = "string" -> v.s # <<>>
    [] v.t = "number" -> v # NaN /\ ("inf" \in DOMAIN v \/ v.n # 0)
    [] v.t = "boolean" -> v.b
    [] v.t = "null" -> FALSE
    [] v.t = "undefined" -> FALSE
    [] v.t = "function" -> TRUE
    [] v.t = "object" -> TRUE

\* object[key], undefined when the property is absent
GetProp(object, key) ==
  IF key \in DOMAIN object.f THEN object.f[key] ELSE Undefined

-----------------------------------------------------------------------------
(* The expression evaluator: evaluateSingleExpression, evaluateExpression,  *)
(* parseTemplateArgs                                                        *)

\* SSRContext: { params: {}, query: {}, headers: {} }, the default of render
\* and the context of the warming loop
EmptyContext == [query |-> EmptyMap, params |-> EmptyMap, headers |-> EmptyMap]

\* context.query[key] and the like
ContextGet(record, key) == IF key \in DOMAIN record THEN record[key] ELSE Undefined

IsQuoted(s) ==
  \/ StartsWith(s, <<"\"">>) /\ EndsWith(s, <<"\"">>)
  \/ StartsWith(s, <<"'">>) /\ EndsWith(s, <<"'">>)

WalkPathOneSegment(value, parts) ==
  IF parts = <<>> THEN value
  ELSE IF value.t = "object" THEN GetProp(value, Head(parts))
  ELSE Undefined

\* index.ts:289-298: the walk along the dotted path, starting at the component
RECURSIVE WalkPath(_, _)
WalkPath(value, parts) ==
  IF parts = <<>> THEN value
  ELSE IF Truthy(value) /\ value.t = "object" /\ GetProp(value, Head(parts)) # Undefined
  THEN WalkPath(GetProp(value, Head(parts)), Tail(parts))
  ELSE Undefined

evaluateSingleExpressionComponentFirst(expression, component, context) ==
  IF WalkPath(component, Split(expression, <<".">>)) # Undefined
  THEN WalkPath(component, Split(expression, <<".">>))
  ELSE IF StartsWith(expression, <<"query", ".">>)
  THEN ContextGet(context.query, SliceFrom(expression, 2))
  ELSE IF StartsWith(expression, <<"params", ".">>)
  THEN ContextGet(context.params, SliceFrom(expression, 2))
  ELSE IF StartsWith(expression, <<"headers", ".">>)
  THEN ContextGet(context.headers, SliceFrom(expression, 2))
  ELSE IF IsQuoted(expression) THEN Str(Unquote(expression))
  ELSE IF Number(expression) # NaN THEN Number(expression)
  ELSE IF expression = <<"true">> THEN Bool(TRUE)
  ELSE IF expression = <<"false">> THEN Bool(FALSE)
  ELSE IF expression = <<"null">> THEN Null
  ELSE IF expression = <<"undefined">> THEN Undefined
  ELSE Undefined

\* index.ts:247-299.  "query." is the two pieces "query" and ".", so that
\* expression.slice(6) is the expression without its first two pieces.
evaluateSingleExpression(expression, component, context) ==
  IF StartsWith(expression, <<"query", ".">>)
  THEN ContextGet(context.query, SliceFrom(expression, 2))
  ELSE IF StartsWith(expression, <<"params", ".">>)
  THEN ContextGet(context.params, SliceFrom(expression, 2))
  ELSE IF StartsWith(expression, <<"headers", ".">>)
  THEN ContextGet(context.headers, SliceFrom(expression, 2))
  ELSE IF IsQuoted(expression) THEN Str(Unquote(expression))
  ELSE IF Number(expression) # NaN THEN Number(expression)
  ELSE IF expression = <<"true">> THEN Bool(TRUE)
  ELSE IF expression = <<"false">> THEN Bool(FALSE)
  ELSE IF expression = <<"null">> THEN Null
  ELSE IF expression = <<"undefined">> THEN Undefined
  ELSE IF GetProp(component, expression) # Undefined THEN GetProp(component, expression)
  ELSE WalkPath(component, Split(expression, <<".">>))

\* the loop of index.ts:234-241 over the operands from index i on
RECURSIVE FirstTruthy(_, _, _, _)
FirstTruthy(parts, i, component, context) ==
  IF i > Len(parts)
  THEN evaluateSingleExpression(parts[Len(parts)], component, context)
  ELSE LET value == evaluateSingleExpression(parts[i], component, context)
       IN  IF Truthy(value) THEN value
           ELSE FirstTruthy(parts, i + 1, component, context)

\* index.ts:230-245
evaluateExpression(expression, component, context) ==
  IF Includes(expression, <<"|", "|">>)
  THEN LET split == Split(expression, <<"|", "|">>)
           parts == [i \in 1..Len(split) |-> Trim(split[i])]
       IN  FirstTruthy(parts, 1, component, context)
  ELSE evaluateSingleExpression(expression, component, context)

\* index.ts:198-227: the value of one argument
parseTemplateArg(arg, context) ==
  IF IsQuoted(arg) THEN Str(Unquote(arg))
  ELSE IF Number(arg) # NaN THEN Number(arg)
  ELSE IF arg = <<"true">> THEN Bool(TRUE)
  ELSE IF arg = <<"false">> THEN Bool(FALSE)
  ELSE IF arg = <<"null">> THEN Null
  ELSE IF arg = <<"undefined">> THEN Undefined
  ELSE IF \/ StartsWith(arg, <<"query", ".">>)
          \/ StartsWith(arg, <<"params", ".">>)
          \/ StartsWith(arg, <<"headers", ".">>)
  THEN evaluateExpression(arg, Obj(EmptyMap), context)
  ELSE Str(arg)

parseTemplateArgsUntrimmed(argsStr, context) ==
  IF Trim(argsStr) = <<>> THEN <<>>
  ELSE LET tokens == Split(argsStr, <<",">>)
       IN  [i \in 1..Len(tokens) |-> parseTemplateArg(tokens[i], context)]

\* index.ts:195-228
parseTemplateArgs(argsStr, context) ==
  IF Trim(argsStr) = <<>> THEN <<>>
  ELSE LET tokens == Split(argsStr, <<",">>)
       IN  [i \in 1..Len(tokens) |-> parseTemplateArg(Trim(tokens[i]), context)]

-----------------------------------------------------------------------------
(* processTemplate *)

\* The exported functions of the component modules: what a call with the
\* arguments argv returns (ok) or that it throws, or rejects (not ok).
Invoke(func, argv) ==
  CASE func.impl = "greet" ->
         [ok |-> TRUE, value |-> Str(<<"<h1>Hello, ">> \o StringOf(argv[1]) \o <<"!</h1>">>)]
    [] func.impl = "appPage" ->       \* async, resolves
         [ok |-> TRUE, value |-> Str(<<"<h1>Async SSR</h1>">>)]
    [] func.impl = "raw" ->           \* returns text that reads as a unit
         [ok |-> TRUE, value |-> Str(<<"{", "{", " ", "count", " ", "}", "}">>)]
    [] func.impl = "nothing" ->       \* returns null
         [ok |-> TRUE, value |-> Null]
    [] func.impl = "throwsError" ->   \* throw new Error('fail!')
         [ok |-> FALSE, value |-> Undefined]
    [] func.impl = "rejects" ->       \* async, rejects
         [ok |-> FALSE, value |-> Undefined]

\* A component module: x is the empty string or 'hi'.  The module also exports
\* objects named query, params and headers.
Component(x) ==
  Obj( (<<"x">> :> Str(x))
    @@ (<<"query">> :> Obj((<<"q">> :> Str(<<"component q">>))
                           @@ (<<"missing">> :> Str(<<"component missing">>))))
    @@ (<<"params">> :> Obj(<<"p">> :> Str(<<"component p">>)))
    @@ (<<"headers">> :> Obj(<<"h">> :> Str(<<"component h">>)))
    @@ (<<"count">> :> Num(0, 0))
    @@ (<<"pageData">> :> Obj(<<"author">> :> Str(<<"John Doe">>)))
    @@ (<<"greet">> :> Fn("greet"))
    @@ (<<"appPage">> :> Fn("appPage"))
    @@ (<<"raw">> :> Fn("raw"))
    @@ (<<"nothing">> :> Fn("nothing"))
    @@ (<<"throwsError">> :> Fn("throwsError"))
    @@ (<<"rejects">> :> Fn("rejects")) )

Components == {Component(<<>>), Component(<<"hi">>)}

\* index.ts:154: the match of /\{\{\s*([^}]+)\s*\}\}/ that starts at i, as the
\* index of its last piece, or 0.  The first "}" after the braces must come
\* after at least one other piece and be followed by a second "}".
UnitEnd(html, i) ==
  LET closes == {j \in (i + 2)..Len(html) : html[j] = "}"}
      j == CHOOSE c \in closes : \A d \in closes : c <= d
  IN  IF /\ i + 1 <= Len(html) /\ html[i] = "{" /\ html[i + 1] = "{"
         /\ closes # {} /\ j >= i + 3 /\ j + 1 <= Len(html) /\ html[j + 1] = "}"
      THEN j + 1 ELSE 0

\* regex.exec(html) with regex.lastIndex at from: the leftmost match
NextUnit(html, from) ==
  LET starts == {i \in from..Len(html) : UnitEnd(html, i) # 0}
      i == CHOOSE a \in starts : \A b \in starts : a <= b
  IN  IF starts = {} THEN [found |-> FALSE, start |-> 0, end |-> 0]
      ELSE [found |-> TRUE, start |-> i, end |-> UnitEnd(html, i)]

\* index.ts:165: expression.match(/^(\w+)\s*\(([^)]*)\)$/)
funcMatch(expression) ==
  LET nonWord == {i \in 1..Len(expression) : ~IsWordPiece(expression[i])}
      nameLen == IF nonWord = {} THEN Len(expression)
                 ELSE (CHOOSE i \in nonWord : \A j \in nonWord : i <= j) - 1
      rest == TrimStart(SliceFrom(expression, nameLen))
  IN  IF /\ nameLen >= 1 /\ Len(rest) >= 2
         /\ Head(rest) = "(" /\ rest[Len(rest)] = ")"
         /\ \A i \in 2..(Len(rest) - 1) : rest[i] # ")"
      THEN [matched |-> TRUE, funcName |-> SubSeq(expression, 1, nameLen),
            argsStr |-> SubSeq(rest, 2, Len(rest) - 1)]
      ELSE [matched |-> FALSE, funcName |-> <<>>, argsStr |-> <<>>]

FailedUnitTextNormalised(unit) ==
  <<"{", "{", " ">> \o Trim(SubSeq(unit, 3, Len(unit) - 2)) \o <<" ", "}", "}">>

\* index.ts:178,187: result += match[0]
FailedUnitText(unit) == unit

CoalesceNullOnly(value) == IF value = Null THEN <<>> ELSE StringOf(value)

\* value ?? '', appended to result
Coalesce(value) == IF value = Null \/ value = Undefined THEN <<>> ELSE StringOf(value)

CallArgumentsContextFirst(args, context) ==
  <<[t |-> "object", context |-> context]>> \o args

\* index.ts:174: func(...args, context)
CallArguments(args, context) ==
  args \o <<[t |-> "object", context |-> context]>>

\* index.ts:160-188: one turn of the loop on the unit whose text is unit
\* (match[0]): what is appended to result, the call made, what is logged.
EvaluateUnit(unit, component, context) ==
  LET expression == Trim(SubSeq(unit, 3, Len(unit) - 2))
      m == funcMatch(expression)
      func == GetProp(component, m.funcName)
      args == IF m.argsStr # <<>> THEN parseTemplateArgs(m.argsStr, context) ELSE <<>>
      invocation == [func |-> m.funcName, argv |-> CallArguments(args, context)]
      returned == Invoke(func, invocation.argv)
  IN  IF m.matched
      THEN IF func.t = "function"
           THEN IF returned.ok
                THEN [out |-> Coalesce(returned.value), calls |-> <<invocation>>, logs |-> <<>>]
                ELSE [out |-> FailedUnitText(unit), calls |-> <<invocation>>, logs |-> <<"error">>]
           ELSE [out |-> FailedUnitText(unit), calls |-> <<>>, logs |-> <<"warn">>]
      ELSE [out |-> Coalesce(evaluateExpression(expression, component, context)),
            calls |-> <<>>, logs |-> <<>>]

\* the while loop of index.ts:159-192 from lastIndex on
RECURSIVE TemplateLoop(_, _, _, _)
TemplateLoop(html, lastIndex, component, context) ==
  LET match == NextUnit(html, lastIndex)
      this == EvaluateUnit(SubSeq(html, match.start, match.end), component, context)
      rest == TemplateLoop(html, match.end + 1, component, context)
  IN  IF ~match.found
      THEN [out |-> SubSeq(html, lastIndex, Len(html)), calls |-> <<>>, logs |-> <<>>,
            units |-> 0]
      ELSE [out |-> SubSeq(html, lastIndex, match.start - 1) \o this.out \o rest.out,
            calls |-> this.calls \o rest.calls,
            logs |-> this.logs \o rest.logs,
            units |-> 1 + rest.units]

\* index.ts:150-193
processTemplate(html, component, context) == TemplateLoop(html, 1, component, context)

-----------------------------------------------------------------------------
(* The project on disk the server is started in, and the requests it gets *)

Root == <<"/">>

\* The files of the project: src/app with its template, the route about
\* (module and template) and the route docs (module, no template).
Files ==
  { <<"src/app/app", ".ts">>, <<"src/app/app", ".html">>,
    <<"src/routes/about/about", ".ts">>, <<"src/routes/about/about", ".html">>,
    <<"src/routes/docs/docs", ".ts">>,
    <<"dist/client/routes", "about", "about", ".client.js">> }

existsSync(file) == file \in files

\* The Map scanRoutesDirectory builds for that project, in insertion order.
DiscoveredRoutes ==
  << [path |-> <<"about">>, component |-> <<"src/routes/about/about", ".ts">>],
     [path |-> <<"docs">>,  component |-> <<"src/routes/docs/docs", ".ts">>] >>

RouteKeys(rt) == {rt[i].path : i \in 1..Len(rt)}

RoutesHas(rt, key) == key \in RouteKeys(rt)

RoutesGet(rt, key) == rt[CHOOSE i \in 1..Len(rt) : rt[i].path = key]

\* Map.prototype.set: a new key is appended, a present key keeps its place.
RoutesSet(rt, key, value) ==
  IF RoutesHas(rt, key)
  THEN [i \in 1..Len(rt) |-> IF rt[i].path = key THEN value ELSE rt[i]]
  ELSE Append(rt, value)

\* getRoutesMap() hands out the internal routes Map itself, not a copy.
getRoutesMap(rt) == rt

\* request.method and url.search of the requests: a GET without a query
\* string, a GET with one, a POST
RequestKinds ==
  { [method |-> "GET", search |-> <<>>],
    [method |-> "GET", search |-> <<"?", "q=1">>],
    [method |-> "POST", search |-> <<>>] }

\* url.pathname of the requests
ReqPaths ==
  { Root, <<"/", "about">>, <<"/", "docs">>, <<"/", "nope">>, <<"/", "robots.txt">> }

Req == {"r1", "r2"}

\* The pages of the project as a browser asks for them: the root, and
\* "/" + urlPath for every discovered route.
WarmPages == {Root} \cup {<<"/">> \o DiscoveredRoutes[i].path : i \in 1..Len(DiscoveredRoutes)}

-----------------------------------------------------------------------------
(* ZyteSSR.render, as far as the handler sees it: which document comes back *)

\* findRoute's null
NullRoute == [null |-> TRUE]

findRouteAnyTrailingSlash(rt, path) ==
  LET stripped == IF StartsWith(path, <<"/">>) THEN SliceFrom(path, 1) ELSE path
      normalizedPath == IF EndsWith(stripped, <<"/">>)
                        THEN SubSeq(stripped, 1, Len(stripped) - 1) ELSE stripped
  IN  IF RoutesHas(rt, normalizedPath)
      THEN RoutesGet(rt, normalizedPath)
      ELSE IF normalizedPath = <<>> \/ normalizedPath = <<"index">>
      THEN IF RoutesHas(rt, <<"home">>) THEN RoutesGet(rt, <<"home">>)
           ELSE IF RoutesHas(rt, <<"index">>) THEN RoutesGet(rt, <<"index">>)
           ELSE NullRoute
      ELSE NullRoute

\* findRoute: strip one leading slash, look the rest up, then the index alias
findRoute(rt, path) ==
  LET normalizedPath == IF StartsWith(path, <<"/">>) THEN SliceFrom(path, 1) ELSE path
  IN  IF RoutesHas(rt, normalizedPath)
      THEN RoutesGet(rt, normalizedPath)
      ELSE IF normalizedPath = <<>> \/ normalizedPath = <<"index">>
      THEN IF RoutesHas(rt, <<"home">>) THEN RoutesGet(rt, <<"home">>)
           ELSE IF RoutesHas(rt, <<"index">>) THEN RoutesGet(rt, <<"index">>)
           ELSE NullRoute
      ELSE NullRoute

\* componentPath with its extension swapped for .html
htmlPathOf(component) ==
  IF Len(component) > 1
  THEN SubSeq(component, 1, Len(component) - 1) \o <<".html">>
  ELSE component \o <<".html">>

AppComponent == <<"src/app/app", ".ts">>

templateMissingNever(htmlPath) == FALSE

\* index.ts:79,107: !existsSync(htmlPath)
templateMissing(htmlPath) == ~existsSync(htmlPath)

IsRootPathSlashOnly(path) == path = Root

\* index.ts:76: path === '/' || path === ''
IsRootPath(path) == path = Root \/ path = <<>>

\* The outcome of render(path): "page" with the component rendered, "notfound"
\* (the 404 document is returned), or "throw" (HTML template not found).
RenderOutcome(rt, path) ==
  IF IsRootPath(path)
  THEN IF templateMissing(htmlPathOf(AppComponent))
       THEN [kind |-> "throw", component |-> AppComponent]
       ELSE [kind |-> "page", component |-> AppComponent]
  ELSE LET route == findRoute(rt, path)
       IN  IF route = NullRoute
           THEN [kind |-> "notfound", component |-> <<>>]
           ELSE IF templateMissing(htmlPathOf(route.component))
           THEN [kind |-> "throw", component |-> route.component]
           ELSE [kind |-> "page", component |-> route.component]

ThrowsNever(outcome) == FALSE

\* await ssr.render(...) rejects: control goes to the catch block
\* (server.ts:118, server.ts:378)
Throws(outcome) == outcome.kind = "throw"

\* The HTML one call of render returns: the 404 document or the component's
\* page.
RenderedHtml(outcome) ==
  [kind |-> outcome.kind, component |-> outcome.component]

\* injectClientScript: a <script> tag for the route's client bundle when the
\* bundle exists under dist/client, else the HTML as it is.
injectClientScript(path, html) ==
  LET routeParts == SelectSeq(path, LAMBDA piece : piece # "/")
      routeName == routeParts[Len(routeParts)]
  IN  IF routeParts = <<>>
      THEN IF existsSync(<<"dist/client/app/app.client", ".js">>)
           THEN [html |-> html, clientScript |-> <<"/client/app/app.client.js">>]
           ELSE html
      ELSE IF existsSync(<<"dist/client/routes">> \o routeParts \o <<routeName, ".client.js">>)
           THEN [html |-> html, clientScript |-> routeParts \o <<routeName, ".client.js">>]
           ELSE html

injectLazyLoadingSkipped(html) == html

\* injectLazyLoading: loading="lazy" on the <img> tags
injectLazyLoading(html) == [html |-> html, lazyImages |-> TRUE]

-----------------------------------------------------------------------------
(* startServer: cache warming, then the listener *)

NoBody == [none |-> TRUE]

NoRender == [pc |-> "none"]

NoScan == [pc |-> "none"]

NoDev == [pc |-> "none"]

NoCall == [pc |-> "none"]

\* A call of handler: pc is "idle" (no call), "render" (awaiting ssr.render)
\* or "done" (the Response is returned).  fromCache and renders record what
\* the call did, first that no cacheable request came for its path before.
NoReq ==
  [pc |-> "idle", path |-> <<>>, method |-> "", search |-> <<>>,
   status |-> 0, body |-> NoBody, fromCache |-> FALSE, renders |-> 0, first |-> FALSE]

Init ==
  /\ options \in [cacheEnabled : BOOLEAN]
  /\ routes = DiscoveredRoutes
  /\ ssrCache = EmptyMap
  /\ now = 0
  /\ phase = "created"
  /\ warmQueue = <<>>
  /\ reqs = [r \in Req |-> NoReq]
  /\ warmed = {}
  /\ seen = {}
  /\ warmLog = <<>>
  /\ scan = NoScan
  /\ dev = NoDev
  /\ files = Files
  /\ rend = NoRender
  /\ call = NoCall

\* Date.now() advances
Tick ==
  /\ now < MaxTime
  /\ now' = now + 1
  /\ UNCHANGED <<scan, dev, warmLog, files, rend, call, options, routes, ssrCache, phase, warmQueue, reqs, warmed, seen>>

\* server.ts:101-108: the keys to warm are those of the routes Map, with the
\* root added to that same Map when it is not in it.
StartWarming ==
  /\ phase = "created"
  /\ options.cacheEnabled
  /\ LET routesToCache == getRoutesMap(routes)
         withRoot == IF RoutesHas(routesToCache, Root) THEN routesToCache
                     ELSE RoutesSet(routesToCache, Root,
                                    [path |-> Root, component |-> AppComponent])
     IN  /\ routes' = withRoot
         /\ warmQueue' = [i \in 1..Len(withRoot) |-> withRoot[i].path]
  /\ phase' = "warming"
  /\ UNCHANGED <<scan, dev, warmLog, files, rend, call, options, ssrCache, now, reqs, warmed, seen>>

\* server.ts:110-122: one turn of the warming loop
WarmOne ==
  /\ phase = "warming"
  /\ warmQueue # <<>>
  /\ LET path == Head(warmQueue)
         outcome == RenderOutcome(routes, path)
         html == injectLazyLoading(injectClientScript(path, RenderedHtml(outcome)))
         turn == [path |-> path, context |-> EmptyContext]
     IN  IF Throws(outcome)
         THEN \* catch (error) { }: nothing is stored, nothing is logged
              /\ warmLog' = Append(warmLog, turn @@ [stored |-> FALSE, logged |-> <<>>])
              /\ UNCHANGED <<ssrCache, warmed>>
         ELSE /\ ssrCache' = MapSet(ssrCache, path, [content |-> html, timestamp |-> now])
              /\ warmed' = warmed \cup {path}
              /\ warmLog' = Append(warmLog, turn @@ [stored |-> TRUE, logged |-> <<"Cached">>])
  /\ warmQueue' = Tail(warmQueue)
  /\ UNCHANGED <<scan, dev, files, rend, call, options, routes, now, phase, reqs, seen>>

LoopEndsAnywhere(queue) == TRUE

\* server.ts:110-122: for (const path of routesToCache.keys()) is left when
\* every key has had its turn
LoopEnds(queue) == queue = <<>>

\* server.ts:403: Bun.serve, after the loop (or at once with caching disabled)
Listen ==
  /\ \/ phase = "warming" /\ LoopEnds(warmQueue)
     \/ phase = "created" /\ ~options.cacheEnabled
  /\ phase' = "listening"
  /\ UNCHANGED <<scan, dev, warmLog, files, rend, call, options, routes, ssrCache, now, warmQueue, reqs, warmed, seen>>

-----------------------------------------------------------------------------
(* handler(request) *)

\* server.ts:131-321: the keep-alive route, sitemap.xml, robots.txt and the
\* static files are answered before the caching layer is reached.
ServedBeforeRender(path) ==
  \/ path \in { <<"/", "__zyte_keepalive">>, <<"/", "__zyte_keepalive", "/">> }
  \/ path = <<"/", "sitemap.xml">>
  \/ path = <<"/", "robots.txt">>
  \/ path = <<"/", "client", "/", "routes", "/", "about", "/", "about.client.js">>

CacheEnabledAlways == TRUE

\* server.ts:324: CACHE_ENABLED = finalOptions.cacheEnabled ?? true
CACHE_ENABLED == options.cacheEnabled

CacheableReadAnyQuery(method, search) == method = "GET"

\* server.ts:328: only GET requests with no query string read the cache
CacheableRead(method, search) == method = "GET" /\ search = <<>>

CacheableWriteAnyMethod(method, search) == search = <<>>

\* server.ts:368: only GET requests with no query string are stored
CacheableWrite(method, search) == method = "GET" /\ search = <<>>

isStaleAtMaxAge(timestamp) == now - timestamp >= CACHE_MAX_AGE_MS

\* server.ts:331
isStale(timestamp) == now - timestamp > CACHE_MAX_AGE_MS

ErrorPage == [kind |-> "500 - Internal Server Error"]

\* server.ts:127-359: from the call of handler to its await of ssr.render
HandlerBegin(r) ==
  /\ phase = "listening"
  /\ reqs[r].pc = "idle"
  /\ \E path \in ReqPaths, kind \in RequestKinds :
       LET method == kind.method
           search == kind.search
           cacheable == method = "GET" /\ search = <<>>
           req == [NoReq EXCEPT !.path = path, !.method = method, !.search = search,
                                !.first = cacheable /\ path \notin seen]
           lookup == CACHE_ENABLED /\ CacheableRead(method, search)
           cached == lookup /\ MapHas(ssrCache, path)
       IN  /\ seen' = IF cacheable /\ path \in WarmPages THEN seen \cup {path} ELSE seen
           /\ IF ServedBeforeRender(path)
              THEN /\ reqs' = [reqs EXCEPT ![r] =
                                 [req EXCEPT !.pc = "done", !.status = 200,
                                             !.body = [kind |-> "other"]]]
                   /\ UNCHANGED ssrCache
              ELSE IF cached /\ ~isStale(ssrCache[path].timestamp)
              THEN /\ reqs' = [reqs EXCEPT ![r] =
                                 [req EXCEPT !.pc = "done", !.status = 200,
                                             !.body = ssrCache[path].content,
                                             !.fromCache = TRUE]]
                   /\ UNCHANGED ssrCache
              ELSE /\ ssrCache' = IF cached THEN MapDelete(ssrCache, path) ELSE ssrCache
                   /\ reqs' = [reqs EXCEPT ![r] =
                                 [req EXCEPT !.pc = "render", !.renders = 1]]
  /\ UNCHANGED <<scan, dev, warmLog, files, rend, call, options, routes, now, phase, warmQueue, warmed>>

\* server.ts:359-398: ssr.render has settled
HandlerFinish(r) ==
  /\ reqs[r].pc = "render"
  /\ LET req == reqs[r]
         outcome == RenderOutcome(routes, req.path)
         html == injectLazyLoading(injectClientScript(req.path,
                                     RenderedHtml(outcome)))
     IN  IF Throws(outcome)
         THEN /\ reqs' = [reqs EXCEPT ![r] =
                            [req EXCEPT !.pc = "done", !.status = 500, !.body = ErrorPage]]
              /\ UNCHANGED ssrCache
         ELSE /\ ssrCache' =
                   IF CACHE_ENABLED /\ CacheableWrite(req.method, req.search)
                   THEN MapSet(ssrCache, req.path, [content |-> html, timestamp |-> now])
                   ELSE ssrCache
              /\ reqs' = [reqs EXCEPT ![r] =
                            [req EXCEPT !.pc = "done", !.status = 200, !.body = html]]
  /\ UNCHANGED <<scan, dev, warmLog, files, rend, call, options, routes, now, phase, warmQueue, warmed, seen>>

\* The Response has been sent; the slot is free for the next request.
Retire(r) ==
  /\ reqs[r].pc = "done"
  /\ reqs' = [reqs EXCEPT ![r] = NoReq]
  /\ UNCHANGED <<scan, dev, warmLog, files, rend, call, options, routes, ssrCache, now, phase, warmQueue, warmed, seen>>

Next ==
  \/ Tick
  \/ StartWarming
  \/ WarmOne
  \/ Listen
  \/ \E r \in Req : HandlerBegin(r)
  \/ \E r \in Req : HandlerFinish(r)
  \/ \E r \in Req : Retire(r)

Spec == Init /\ [][Next]_vars

-----------------------------------------------------------------------------
(* Properties of the handler and its cache *)

\* the request is a GET with an empty query string
IsCacheable(req) == req.method = "GET" /\ req.search = <<>>

\* this step is the call of handler for the request in slot r
Began(r) == reqs[r].pc = "idle" /\ reqs'[r].pc # "idle"

\* this step is the return of ssr.render to the handler call in slot r
Rendered(r) == reqs[r].pc = "render" /\ reqs'[r].pc = "done"

\* C1: with caching enabled, a GET request with an empty query string is
\* answered from the cache, without a call of render, exactly when an entry
\* exists for its path with now - timestamp <= cacheMaxAge, and then with the
\* entry's content; otherwise no entry for the path is left when rendering
\* starts (a stale one is deleted); and what a cacheable request stores is the
\* HTML it answers with, stamped with the time of the store.
C1_Step(r) ==
  /\ (options.cacheEnabled /\ Began(r) /\ IsCacheable(reqs'[r])) =>
       LET path == reqs'[r].path
           fresh == /\ path \in DOMAIN ssrCache
                    /\ now - ssrCache[path].timestamp <= CACHE_MAX_AGE_MS
       IN  /\ (reqs'[r].pc = "done" /\ reqs'[r].fromCache /\ reqs'[r].renders = 0) <=> fresh
           /\ fresh => reqs'[r].body = ssrCache[path].content /\ ssrCache' = ssrCache
           /\ ~fresh => path \notin DOMAIN ssrCache'
  /\ (options.cacheEnabled /\ Rendered(r) /\ IsCacheable(reqs[r]) /\ reqs'[r].status = 200) =>
       /\ reqs[r].path \in DOMAIN ssrCache'
       /\ ssrCache'[reqs[r].path] = [content |-> reqs'[r].body, timestamp |-> now]

C1_CacheHitIffFresh == [][\A r \in Req : C1_Step(r)]_vars

\* a request has just been answered from an entry aged exactly cacheMaxAge
C1_Witness ==
  \E r \in Req :
    /\ reqs[r].pc = "done" /\ reqs[r].fromCache
    /\ reqs[r].path \in DOMAIN ssrCache
    /\ now - ssrCache[reqs[r].path].timestamp = CACHE_MAX_AGE_MS

\* the page was stored by the warming loop: the root, or "/" + urlPath of a
\* discovered route whose pre-render succeeded
PreRendered(path) ==
  \/ path = Root /\ Root \in warmed
  \/ \E key \in warmed \ {Root} : path = <<"/">> \o key

\* C2: after pre-warming, the first GET request without a query string for a
\* pre-rendered page (the root, or "/" + urlPath), arriving within
\* cacheMaxAge of startup, is served from the cache without a call of render.
C2_FirstVisitFromCache ==
  \A r \in Req :
    ( /\ options.cacheEnabled
      /\ reqs[r].pc # "idle"
      /\ reqs[r].first
      /\ PreRendered(reqs[r].path)
      /\ now <= CACHE_MAX_AGE_MS )
    => (reqs[r].pc = "done" /\ reqs[r].fromCache /\ reqs[r].renders = 0)

\* C3: the cache never holds more entries than there are discovered routes,
\* plus one for the root page.
C3_CacheBoundedByRoutes ==
  Cardinality(DOMAIN ssrCache) <= Len(DiscoveredRoutes) + 1

\* C4: no step of the handling of a request that is not a GET, or that has a
\* query string, changes the cache, and such a request goes on to render
\* unless it is answered before the caching layer (which no request whose
\* path has a cache entry is): a fresh entry for its path is not used.
C4_Step(r) ==
  LET req == IF reqs[r].pc = "idle" THEN reqs'[r] ELSE reqs[r]
  IN  (reqs'[r] # reqs[r] /\ ~IsCacheable(req)) =>
        /\ ssrCache' = ssrCache
        /\ Began(r) =>
             /\ ~reqs'[r].fromCache
             /\ reqs'[r].pc = "render" \/ ServedBeforeRender(req.path)
             /\ req.path \in DOMAIN ssrCache =>
                  reqs'[r].pc = "render" /\ reqs'[r].renders = 1

C4_UncacheableLeavesCache == [][\A r \in Req : C4_Step(r)]_vars

\* a request with a query string, or a POST, is being rendered while a fresh
\* entry for its path is in the cache
C4_Witness ==
  \E r \in Req :
    /\ reqs[r].pc = "render" /\ ~IsCacheable(reqs[r])
    /\ reqs[r].path \in DOMAIN ssrCache
    /\ ~isStale(ssrCache[reqs[r].path].timestamp)

-----------------------------------------------------------------------------
(* Calls of the template engine's functions on their own: the inputs *)

MaxArgs == 3        \* argument tokens of a generated call

MaxOperands == 3    \* operands of a generated || chain

MaxPieces == 3      \* pieces (text or unit) of a generated template

MaxDepth == 3       \* segments of a generated dotted path

\* an SSRContext with a value in each namespace
SomeContext ==
  [query |-> (<<"q">> :> Str(<<"Q">>)) @@ (<<"e">> :> Str(<<>>)),
   params |-> (<<"p">> :> Str(<<"P">>)),
   headers |-> (<<"h">> :> Str(<<"H">>))]

Contexts == {EmptyContext, SomeContext}

\* One argument token as it is written, with the category the token is
\* written in and the value it stands for (a context path names its namespace
\* and key instead).
ArgToken(text, kind, value) == [text |-> text, kind |-> kind, value |-> value, ns |-> "", key |-> <<>>]

ContextToken(ns, key) ==
  [text |-> <<ns, ".">> \o key, kind |-> "context", value |-> Undefined, ns |-> ns, key |-> key]

ArgTokens ==
  { ArgToken(<<"\"", "str", "\"">>, "quoted", Str(<<"str">>)),
    ArgToken(<<"'", "World", "'">>, "quoted", Str(<<"World">>)),
    ArgToken(<<"4", "2">>, "number", Num(42, 0)),
    ArgToken(<<"1", ".", "5">>, "number", Num(15, 1)),
    ArgToken(<<"true">>, "boolean", Bool(TRUE)),
    ArgToken(<<"false">>, "boolean", Bool(FALSE)),
    ArgToken(<<"null">>, "null", Null),
    ArgToken(<<"undefined">>, "undefined", Undefined),
    ContextToken("query", <<"q">>),
    ContextToken("query", <<"missing">>),
    ContextToken("params", <<"p">>),
    ContextToken("headers", <<"h">>),
    ArgToken(<<"a">>, "other", Str(<<"a">>)),
    ArgToken(<<>>, "other", Str(<<>>)) }

\* the arguments of f(42, true, null, "str", query.missing)
ExampleArgs ==
  << ArgToken(<<"4", "2">>, "number", Num(42, 0)),
     ArgToken(<<"true">>, "boolean", Bool(TRUE)),
     ArgToken(<<"null">>, "null", Null),
     ArgToken(<<"\"", "str", "\"">>, "quoted", Str(<<"str">>)),
     ContextToken("query", <<"missing">>) >>

\* the texts joined with sep between them
RECURSIVE Join(_, _)
Join(texts, sep) ==
  IF texts = <<>> THEN <<>>
  ELSE IF Len(texts) = 1 THEN texts[1]
  ELSE texts[1] \o sep \o Join(Tail(texts), sep)

TextsOf(parts) == [i \in 1..Len(parts) |-> parts[i].text]

SeqsUpTo(S, n) == UNION {[1..k -> S] : k \in 0..n}

\* One operand of a || chain: a literal, the component's export x (its value
\* is the component's), or a context path.
Operand(text, kind, value) == [text |-> text, kind |-> kind, value |-> value, ns |-> "", key |-> <<>>]

Operands ==
  { Operand(<<"x">>, "export", Undefined),
    Operand(<<"'", "fallback", "'">>, "literal", Str(<<"fallback">>)),
    Operand(<<"'", "'">>, "literal", Str(<<>>)),
    Operand(<<"\"", "hi", "\"">>, "literal", Str(<<"hi">>)),
    Operand(<<"0">>, "literal", Num(0, 0)),
    Operand(<<"4", "2">>, "literal", Num(42, 0)),
    Operand(<<"null">>, "literal", Null),
    Operand(<<"undefined">>, "literal", Undefined),
    Operand(<<"false">>, "literal", Bool(FALSE)),
    Operand(<<"true">>, "literal", Bool(TRUE)),
    Operand(<<"count">>, "literal", Num(0, 0)),
    Operand(<<"pageData", ".", "author">>, "literal", Str(<<"John Doe">>)),
    Operand(<<"missing">>, "literal", Undefined),
    ContextToken("query", <<"q">>),
    ContextToken("query", <<"e">>),
    ContextToken("query", <<"missing">>),
    ContextToken("params", <<"p">>),
    ContextToken("headers", <<"missing">>) }

\* One piece of a template: text outside any unit, a unit whose function
\* fails (it throws, rejects, is absent or is not callable), or another unit.
\* called is the exported function the unit calls, <<>> when it calls none.
Piece(text, kind, called) == [text |-> text, kind |-> kind, called |-> called]

Unit(expression) == <<"{", "{", " ">> \o expression \o <<" ", "}", "}">>

Pieces ==
  { Piece(<<"<p>">>, "text", <<>>),
    Piece(<<"</p>">>, "text", <<>>),
    Piece(<<" ">>, "text", <<>>),
    Piece(Unit(<<"x", " ", "|", "|", " ", "'", "fallback", "'">>), "unit", <<>>),
    Piece(Unit(<<"pageData", ".", "author">>), "unit", <<>>),
    Piece(Unit(<<"greet", "(", "'", "World", "'", ")">>), "unit", <<"greet">>),
    Piece(Unit(<<"greet", "(", "query", ".", "q", ",", " ", "4", "2", ")">>), "unit", <<"greet">>),
    Piece(<<"{", "{">> \o <<"appPage", "(", ")">> \o <<"}", "}">>, "unit", <<"appPage">>),
    Piece(Unit(<<"raw", "(", ")">>), "unit", <<"raw">>),
    Piece(Unit(<<"nothing", "(", ")">>), "unit", <<"nothing">>),
    Piece(Unit(<<"missing">>), "unit", <<>>),
    Piece(Unit(<<"throwsError", "(", ")">>), "fails", <<"throwsError">>),
    Piece(<<"{", "{">> \o <<"rejects", "(", " ", ")", " ">> \o <<"}", "}">>, "fails", <<"rejects">>),
    Piece(Unit(<<"notAFunction", "(", "4", ")">>), "fails", <<>>),
    Piece(<<"{", "{", " ", " ">> \o <<"count", " ", "(", ")">> \o <<"}", "}">>, "fails", <<>>) }

\* the call of the claim's example through a template
ExampleTemplate ==
  << Piece(Unit(<<"greet", "(">> \o Join(TextsOf(ExampleArgs), <<",", " ">>) \o <<")">>),
           "unit", <<"greet">>) >>

NoResult == [none |-> TRUE]

Call(op, parts, sep, component, context) ==
  [op |-> op, pc |-> "called", parts |-> parts, input |-> Join(TextsOf(parts), sep),
   component |-> component, context |-> context, result |-> NoResult]

\* a call of parseTemplateArgs(argsStr, context)
ArgsCall ==
  \E parts \in SeqsUpTo(ArgTokens, MaxArgs) \cup {ExampleArgs},
     sep \in {<<",">>, <<",", " ">>},
     context \in Contexts :
    call = Call("parseTemplateArgs", parts, sep, Obj(EmptyMap), context)

\* a call of evaluateExpression(expression, component, context)
ExpressionCall ==
  \E parts \in SeqsUpTo(Operands, MaxOperands) \ {<<>>},
     component \in Components :
    call = Call("evaluateExpression", parts, <<" ", "|", "|", " ">>, component, SomeContext)

\* a call of processTemplate(html, component, context)
TemplateCall ==
  \E parts \in SeqsUpTo(Pieces, MaxPieces) \cup {ExampleTemplate},
     component \in Components,
     context \in Contexts :
    call = Call("processTemplate", parts, <<>>, component, context)

\* The component of the test of nested access, { foo: { bar: 123 } }, with
\* more in it: an object two levels down, a null, a number, a string and a
\* function at the top.
PathComponent ==
  Obj( (<<"foo">> :> Obj( (<<"bar">> :> Num(123, 0))
                       @@ (<<"baz">> :> Obj( (<<"bar">> :> Str(<<"deep">>))
                                          @@ (<<"none">> :> Null) ))
                       @@ (<<"none">> :> Null) ))
    @@ (<<"bar">> :> Str(<<"top">>))
    @@ (<<"count">> :> Num(0, 0))
    @@ (<<"greet">> :> Fn("greet")) )

\* a call of evaluateSingleExpression(expression, component, context) with a
\* dotted path for the expression
PathCall ==
  \E parts \in SeqsUpTo({[text |-> <<name>>] :
                           name \in {"foo", "bar", "baz", "none", "count", "greet", "missing"}},
                        MaxDepth) \ {<<>>},
     component \in {PathComponent, Obj(EmptyMap)} :
    call = Call("evaluateSingleExpression", parts, <<".">>, component, SomeContext)

InitExpr ==
  /\ options = [cacheEnabled |-> FALSE]
  /\ routes = DiscoveredRoutes
  /\ ssrCache = EmptyMap
  /\ now = 0
  /\ phase = "created"
  /\ warmQueue = <<>>
  /\ reqs = [r \in Req |-> NoReq]
  /\ warmed = {}
  /\ seen = {}
  /\ warmLog = <<>>
  /\ scan = NoScan
  /\ dev = NoDev
  /\ files = Files
  /\ rend = NoRender
  /\ (ArgsCall \/ ExpressionCall \/ TemplateCall \/ PathCall)

Return(result) ==
  /\ call' = [call EXCEPT !.pc = "returned", !.result = result]
  /\ UNCHANGED <<serverVars, scan, dev, files, rend>>

ReturnArgs ==
  /\ call.pc = "called" /\ call.op = "parseTemplateArgs"
  /\ Return(parseTemplateArgs(call.input, call.context))

ReturnExpression ==
  /\ call.pc = "called" /\ call.op = "evaluateExpression"
  /\ Return(evaluateExpression(call.input, call.component, call.context))

ReturnSingle ==
  /\ call.pc = "called" /\ call.op = "evaluateSingleExpression"
  /\ Return(evaluateSingleExpression(call.input, call.component, call.context))

ReturnTemplate ==
  /\ call.pc = "called" /\ call.op = "processTemplate"
  /\ Return(processTemplate(call.input, call.component, call.context))

NextExpr == ReturnArgs \/ ReturnExpression \/ ReturnSingle \/ ReturnTemplate

SpecExpr == InitExpr /\ [][NextExpr]_vars

-----------------------------------------------------------------------------
(* Properties of the template engine's functions *)

Returned(op) == call.pc = "returned" /\ call.op = op

\* the value a context path stands for in the context
ContextValue(token, context) ==
  IF token.key \in DOMAIN context[token.ns] THEN context[token.ns][token.key] ELSE Undefined

\* the unit between the texts <p> and </p>
InParagraph(unit) == <<Piece(<<"<p>">>, "text", <<>>), unit, Piece(<<"</p>">>, "text", <<>>)>>

\* the value of a piece that is evaluated, as the unit alone evaluates
RECURSIVE C5_ExpectedOut(_, _, _)
C5_ExpectedOut(parts, component, context) ==
  IF parts = <<>> THEN <<>>
  ELSE (IF Head(parts).kind \in {"text", "fails"} THEN Head(parts).text
        ELSE EvaluateUnit(Head(parts).text, component, context).out)
       \o C5_ExpectedOut(Tail(parts), component, context)

C5_CalledPieces(parts) == SelectSeq(parts, LAMBDA piece : piece.called # <<>>)

\* C5: when the function of a unit throws, rejects, is absent or is not
\* callable, processTemplate still returns; the unit stands in the output as
\* its own text, exactly as written, the text around it is unchanged, and every
\* other unit, the later ones included, is evaluated: each function a unit
\* names is called, in template order, and its value stands in the output.
C5_FailingUnitKeptVerbatim ==
  Returned("processTemplate") =>
    /\ call.result.out = C5_ExpectedOut(call.parts, call.component, call.context)
    /\ LET called == C5_CalledPieces(call.parts)
       IN  /\ Len(call.result.calls) = Len(called)
           /\ \A i \in 1..Len(called) : call.result.calls[i].func = called[i].called

\* a template whose first unit fails and is followed by text and a unit that
\* calls a function has been processed
C5_Witness ==
  /\ Returned("processTemplate")
  /\ Len(call.parts) = 3
  /\ call.parts[1].kind = "fails" /\ call.parts[1].called # <<>>
  /\ call.parts[2].kind = "text"
  /\ call.parts[3].kind = "unit" /\ call.parts[3].called = <<"greet">>
  /\ call.result.out = call.parts[1].text \o call.parts[2].text \o <<"<h1>Hello, ", "World", "!</h1>">>

\* the falsy values the claim lists
C8_Falsy(value) == value \in {Null, Undefined, Str(<<>>), Bool(FALSE), Num(0, 0)}

C8_OperandValue(operand, component, context) ==
  CASE operand.kind = "export" -> GetProp(component, operand.text)
    [] operand.kind = "context" -> ContextValue(operand, context)
    [] OTHER -> operand.value

\* C8: evaluateExpression on the chain e1 || ... || en returns the value of
\* the first operand whose value is not falsy, and the value of en when every
\* operand is falsy; <p>{{ x || 'fallback' }}</p> is rendered as
\* <p>fallback</p> when x is the empty string and as <p>hi</p> when x is 'hi'.
C8_FirstTruthyOperand ==
  /\ Returned("evaluateExpression") =>
       LET n == Len(call.parts)
           value == [i \in 1..n |-> C8_OperandValue(call.parts[i], call.component, call.context)]
           truthy == {i \in 1..n : ~C8_Falsy(value[i])}
       IN  call.result = IF truthy = {} THEN value[n]
                         ELSE value[CHOOSE i \in truthy : \A j \in truthy : i <= j]
  /\ ( /\ Returned("processTemplate")
       /\ call.parts = InParagraph(Piece(Unit(<<"x", " ", "|", "|", " ", "'", "fallback", "'">>), "unit", <<>>)) )
     => call.result.out = IF call.component = Component(<<>>)
                          THEN <<"<p>", "fallback", "</p>">>
                          ELSE <<"<p>", "hi", "</p>">>

\* a chain of three operands whose first two are falsy and whose last is
\* truthy has been evaluated to the value of the last
C8_Witness ==
  /\ Returned("evaluateExpression")
  /\ TextsOf(call.parts) = << <<"x">>, <<"query", ".", "e">>, <<"'", "fallback", "'">> >>
  /\ call.component = Component(<<>>)
  /\ call.result = Str(<<"fallback">>)

\* the values parseTemplateArgs is to return for the tokens of a named category
C9_Value(token, context) ==
  IF token.kind = "context" THEN ContextValue(token, context) ELSE token.value

\* C9: parseTemplateArgs returns one value per comma-separated token (none
\* for a blank argument string), in token order: the unquoted text of a quoted
\* token, the number of a numeric literal, the boolean of true and false, null,
\* undefined, and for a query./params./headers. path the context's value for
\* the key, undefined when the key is absent; f(42, true, null, "str",
\* query.missing) with an empty query is called with
\* [42, true, null, 'str', undefined] (and the context after them).
C9_OneValuePerToken ==
  /\ Returned("parseTemplateArgs") =>
       /\ Len(call.result) = IF Trim(call.input) = <<>> THEN 0 ELSE Len(call.parts)
       /\ \A i \in 1..Len(call.result) :
            call.parts[i].kind # "other" => call.result[i] = C9_Value(call.parts[i], call.context)
  /\ (Returned("parseTemplateArgs") /\ call.parts = ExampleArgs /\ call.context = EmptyContext)
       => call.result = <<Num(42, 0), Bool(TRUE), Null, Str(<<"str">>), Undefined>>
  /\ (Returned("processTemplate") /\ call.parts = ExampleTemplate)
       => /\ Len(call.result.calls) = 1
          /\ SubSeq(call.result.calls[1].argv, 1, 5)
               = <<Num(42, 0), Bool(TRUE), Null, Str(<<"str">>), Undefined>>

\* the arguments of the example have been parsed with an empty query
C9_Witness ==
  /\ Returned("parseTemplateArgs")
  /\ call.parts = ExampleArgs
  /\ call.context = EmptyContext
  /\ Len(call.result) = 5
  /\ call.result[5] = Undefined

\* C10: every argument token that is not a quoted string, a number literal,
\* true, false, null, undefined or a context path is passed as the string of
\* its trimmed text, the empty token between two commas included.
C10_OtherTokensAreStrings ==
  Returned("parseTemplateArgs") =>
    \A i \in 1..Len(call.result) :
      call.parts[i].kind = "other" => call.result[i] = Str(call.parts[i].text)

\* the path was left at a missing segment or at a value that is no object
C25_NotFound == [notFound |-> TRUE]

\* the values along the segments names[1..n], from the component on
C25_Along(component, names) ==
  LET at[k \in 0..Len(names)] ==
        IF k = 0 THEN component
        ELSE IF at[k - 1] = C25_NotFound THEN C25_NotFound
        ELSE IF at[k - 1].t # "object" THEN C25_NotFound
        ELSE IF names[k] \notin DOMAIN at[k - 1].f THEN C25_NotFound
        ELSE at[k - 1].f[names[k]]
  IN  at[Len(names)]

\* C25: a dotted path that is no literal and no reserved namespace is
\* resolved segment by segment from the component's exports: the result is
\* the nested value when every segment exists, and undefined (no exception)
\* when a segment is missing or the value reached before a segment is not an
\* object.
C25_DottedPathResolved ==
  Returned("evaluateSingleExpression") =>
    LET names == [i \in 1..Len(call.parts) |-> call.parts[i].text]
        found == C25_Along(call.component, names)
    IN  call.result = IF found = C25_NotFound THEN Undefined ELSE found

\* foo.baz.bar has given the string two levels down
C25_Witness ==
  /\ Returned("evaluateSingleExpression")
  /\ call.input = <<"foo", ".", "baz", ".", "bar">>
  /\ call.component = PathComponent
  /\ call.result = Str(<<"deep">>)

\* the result of each unit of the templates, as the unit is written
C24_UnitResult(text, component, context) ==
  LET x == component.f[<<"x">>]
      q == IF <<"q">> \in DOMAIN context.query THEN context.query[<<"q">>].s
           ELSE <<"undefined">>
  IN  CASE text = Unit(<<"x", " ", "|", "|", " ", "'", "fallback", "'">>) ->
             IF x.s = <<>> THEN Str(<<"fallback">>) ELSE x
        [] text = Unit(<<"pageData", ".", "author">>) -> Str(<<"John Doe">>)
        [] text = Unit(<<"greet", "(", "'", "World", "'", ")">>) ->
             Str(<<"<h1>Hello, ", "World", "!</h1>">>)
        [] text = Unit(<<"greet", "(", "query", ".", "q", ",", " ", "4", "2", ")">>) ->
             Str(<<"<h1>Hello, ">> \o q \o <<"!</h1>">>)
        [] text = <<"{", "{", "appPage", "(", ")", "}", "}">> -> Str(<<"<h1>Async SSR</h1>">>)
        [] text = Unit(<<"raw", "(", ")">>) -> Str(<<"{", "{", " ", "count", " ", "}", "}">>)
        [] text = Unit(<<"nothing", "(", ")">>) -> Null
        [] text = Unit(<<"missing">>) -> Undefined
        [] text = ExampleTemplate[1].text -> Str(<<"<h1>Hello, ", "4", "2", "!</h1>">>)

\* the template with each unit replaced by its result, null and undefined by
\* nothing; text, and a unit that fails and so has no result, as written
RECURSIVE C24_Replaced(_, _, _)
C24_Replaced(parts, component, context) ==
  IF parts = <<>> THEN <<>>
  ELSE LET piece == Head(parts)
           result == C24_UnitResult(piece.text, component, context)
       IN  (IF piece.kind # "unit" THEN piece.text
            ELSE IF result \in {Null, Undefined} THEN <<>>
            ELSE result.s)
           \o C24_Replaced(Tail(parts), component, context)

\* C24: the output of processTemplate is the template with each unit
\* replaced, in order, by the unit's result, null and undefined as the empty
\* string, and everything outside the units unchanged; it is one pass: as
\* many units are evaluated as the template has, and a result that reads as
\* a unit, '{{ count }}', stands in the output as it is.
C24_SinglePassReplacement ==
  Returned("processTemplate") =>
    /\ call.result.out = C24_Replaced(call.parts, call.component, call.context)
    /\ call.result.units = Len(SelectSeq(call.parts, LAMBDA piece : piece.kind # "text"))

\* raw() gave '{{ count }}', kept as it is, next to units that gave null and
\* undefined
C24_Witness ==
  /\ Returned("processTemplate")
  /\ call.input = Unit(<<"raw", "(", ")">>) \o Unit(<<"nothing", "(", ")">>)
                    \o Unit(<<"missing">>)
  /\ call.result.out = <<"{", "{", " ", "count", " ", "}", "}">>
  /\ call.result.units = 3

-----------------------------------------------------------------------------
(* ZyteSSR.render step by step: route lookup, template, component, engine *)

RouteOf(name) ==
  [path |-> <<name>>, component |-> <<"src/routes/" \o name \o "/" \o name, ".ts">>]

\* Route tables scanRoutesDirectory builds (about and docs; home and about;
\* index alone; none), and the first of them after cache warming has added the
\* root entry to it.
RouteTables ==
  { DiscoveredRoutes,
    <<RouteOf("home"), RouteOf("about")>>,
    <<RouteOf("index")>>,
    <<>>,
    RoutesSet(DiscoveredRoutes, Root, [path |-> Root, component |-> AppComponent]) }

\* The component modules are on disk; templates and stylesheets may be.
ComponentFiles ==
  { AppComponent, RouteOf("about").component, RouteOf("docs").component,
    RouteOf("home").component, RouteOf("index").component }

OptionalFiles ==
  { <<"src/app/app", ".html">>, <<"src/app/app", ".css">>,
    <<"src/routes/about/about", ".html">>, <<"src/routes/about/about", ".css">>,
    <<"src/routes/home/home", ".html">> }

Projects == {ComponentFiles \cup present : present \in SUBSET OptionalFiles}

\* the path argument of render
RenderPaths ==
  { Root, <<>>, <<"/", "about">>, <<"about">>, <<"/", "docs">>, <<"/", "nope">>,
    <<"/", "index">>, <<"index">>, <<"/", "home">>, <<"/", "/">>, <<"/", "about", "/">> }

\* readFileSync(htmlPath): every template has a head, text and one unit
TemplateOf(htmlPath) ==
  <<"<head>", "</head>", "<p>">> \o Unit(<<"greet", "(", "'", "World", "'", ")">>) \o <<"</p>">>

\* the public URL of a stylesheet: its path relative to src
CssHref(cssPath) ==
  IF cssPath = <<"src/app/app", ".css">> THEN "/app/app.css"
  ELSE "/routes/about/about.css"

\* html.replace('</head>', link + '\n</head>'): the first occurrence only
InjectCss(html, cssPath) ==
  LET i == IndexOf(html, <<"</head>">>)
      link == "<link rel=\"stylesheet\" href=\"" \o CssHref(cssPath) \o "\">"
  IN  IF i = 0 THEN html
      ELSE SubSeq(html, 1, i - 1) \o <<link, "\n", "</head>">>
           \o SubSeq(html, i + 1, Len(html))

cssPathOf(htmlPath) == SubSeq(htmlPath, 1, Len(htmlPath) - 1) \o <<".css">>

\* index.ts:301-319
render404 ==
  <<"<!DOCTYPE html>", "<title>", "404 - Page Not Found", "</title>",
    "<h1>", "404 - Page Not Found", "</h1>",
    "<p>The requested page could not be found.</p>", "<a href=\"/\">Go back home</a>">>

\* A call of render: pc is "called", "loading" (awaiting loadComponent),
\* "processing" (awaiting processTemplate), "returned" or "thrown".  read and
\* loaded list the templates read and the modules imported, units counts the
\* expression units evaluated.
NewRender(path) ==
  [pc |-> "called", path |-> path, componentPath |-> <<>>, html |-> <<>>,
   component |-> Null, result |-> NoResult, error |-> "",
   read |-> <<>>, loaded |-> <<>>, units |-> 0]

InitRender ==
  /\ options = [cacheEnabled |-> FALSE]
  /\ routes \in RouteTables
  /\ ssrCache = EmptyMap
  /\ now = 0
  /\ phase = "created"
  /\ warmQueue = <<>>
  /\ reqs = [r \in Req |-> NoReq]
  /\ warmed = {}
  /\ seen = {}
  /\ warmLog = <<>>
  /\ scan = NoScan
  /\ dev = NoDev
  /\ files \in Projects
  /\ rend \in {NewRender(path) : path \in RenderPaths}
  /\ call = NoCall

\* index.ts:76-89 and 94-119: up to the call of loadComponent
RenderBegin ==
  /\ rend.pc = "called"
  /\ LET isRoot == IsRootPath(rend.path)
         route == IF isRoot THEN [path |-> Root, component |-> AppComponent]
                  ELSE findRoute(routes, rend.path)
         htmlPath == htmlPathOf(route.component)
         template == TemplateOf(htmlPath)
         html == IF existsSync(cssPathOf(htmlPath))
                 THEN InjectCss(template, cssPathOf(htmlPath)) ELSE template
     IN  IF route = NullRoute
         THEN rend' = [rend EXCEPT !.pc = "returned", !.result = render404]
         ELSE IF templateMissing(htmlPath)
         THEN rend' = [rend EXCEPT !.pc = "thrown", !.error = "HTML template not found"]
         ELSE IF ~existsSync(htmlPath)
         THEN rend' = [rend EXCEPT !.pc = "thrown", !.error = "ENOENT"]
         ELSE rend' = [rend EXCEPT !.pc = "loading", !.componentPath = route.component,
                                   !.html = html, !.read = Append(@, htmlPath)]
  /\ UNCHANGED <<serverVars, scan, dev, files, call>>

\* index.ts:142-148: loadComponent
RenderLoad ==
  /\ rend.pc = "loading"
  /\ LET extname == rend.componentPath[Len(rend.componentPath)]
     IN  IF extname \notin {".ts", ".js"}
         THEN rend' = [rend EXCEPT !.pc = "thrown", !.error = "Unsupported component type"]
         ELSE IF ~existsSync(rend.componentPath)
         THEN rend' = [rend EXCEPT !.pc = "thrown", !.error = "Cannot find module"]
         ELSE rend' = [rend EXCEPT !.pc = "processing",
                                   !.component = Component(<<"hi">>),
                                   !.loaded = Append(@, rend.componentPath)]
  /\ UNCHANGED <<serverVars, scan, dev, files, call>>

RenderReturn(processed) ==
  /\ rend' = [rend EXCEPT !.pc = "returned", !.result = processed.out,
                          !.units = processed.units]
  /\ UNCHANGED <<serverVars, scan, dev, files, call>>

\* index.ts:91-92 and 121-122: processTemplate, and the return
RenderProcess ==
  /\ rend.pc = "processing"
  /\ RenderReturn(processTemplate(rend.html, rend.component, EmptyContext))

NextRender == RenderBegin \/ RenderLoad \/ RenderProcess

SpecRender == InitRender /\ [][NextRender]_vars

-----------------------------------------------------------------------------
(* Properties of render *)

\* the path without one leading slash
C6_Stripped(path) == IF path # <<>> /\ Head(path) = "/" THEN Tail(path) ELSE path

C6_Matches(path) == \E i \in 1..Len(routes) : routes[i].path = C6_Stripped(path)

C6_Is404 ==
  /\ rend.pc = "returned"
  /\ rend.result = render404
  /\ \E i \in 1..Len(rend.result) : rend.result[i] = "404 - Page Not Found"
  /\ rend.error = ""
  /\ rend.read = <<>>
  /\ rend.loaded = <<>>

\* C6 as stated: for every path other than '/' and '' that matches no entry
\* of the route table once one leading slash is stripped, render returns the
\* 404 document, throws nothing, reads no template and loads no component.
C6_UnmatchedPathIs404 ==
  ( /\ rend.pc \notin {"none", "called"}
    /\ rend.path \notin {Root, <<>>}
    /\ ~C6_Matches(rend.path) )
  => C6_Is404

\* C6, amended: the same for every such path that, when it is 'index' after
\* the stripping, also finds no entry 'home' in the route table (render
\* answers /index with the route home, or index, when there is one).
C6_UnmatchedPathIs404UnlessIndexAlias ==
  ( /\ rend.pc \notin {"none", "called"}
    /\ rend.path \notin {Root, <<>>}
    /\ ~C6_Matches(rend.path)
    /\ (C6_Stripped(rend.path) = <<"index">> => \A i \in 1..Len(routes) : routes[i].path # <<"home">>) )
  => C6_Is404

\* render('/nope') has returned the 404 document from a table with routes
C6_Witness ==
  /\ rend.path = <<"/", "nope">>
  /\ routes = DiscoveredRoutes
  /\ C6_Is404

\* the template the path's component goes with: the root's, or that of the
\* route the path is known as
C7_Known(path) == path \in {Root, <<>>} \/ findRoute(routes, path) # NullRoute

C7_TemplateFile(path) ==
  IF path \in {Root, <<>>} THEN <<"src/app/app", ".html">>
  ELSE LET component == findRoute(routes, path).component
       IN  SubSeq(component, 1, Len(component) - 1) \o <<".html">>

\* C7: for the root path or a known route whose template file is absent,
\* render rejects with 'HTML template not found': it returns neither the 404
\* document nor other HTML, loads no component module and evaluates no
\* expression.
C7_MissingTemplateThrows ==
  ( /\ rend.pc \notin {"none", "called"}
    /\ C7_Known(rend.path)
    /\ C7_TemplateFile(rend.path) \notin files )
  => /\ rend.pc = "thrown"
     /\ rend.error = "HTML template not found"
     /\ rend.result = NoResult
     /\ rend.loaded = <<>>
     /\ rend.units = 0

\* render('/docs') has thrown for the route docs, which has no template
C7_Witness ==
  /\ rend.path = <<"/", "docs">>
  /\ routes = DiscoveredRoutes
  /\ rend.pc = "thrown"
  /\ rend.error = "HTML template not found"

\* C22: render('/') and render('') use src/app/app.ts and src/app/app.html
\* whatever the route table holds, a route home or index included: the only
\* template read and the only module loaded are the app's, the call throws
\* exactly when src/app/app.html is missing, and it never gives the 404 page.
C22_RootUsesAppComponent ==
  (rend.pc # "none" /\ rend.pc # "called" /\ rend.path \in {Root, <<>>}) =>
    /\ rend.pc = "thrown" <=> <<"src/app/app", ".html">> \notin files
    /\ rend.pc # "thrown" =>
         /\ rend.componentPath = <<"src/app/app", ".ts">>
         /\ rend.read = << <<"src/app/app", ".html">> >>
         /\ \A i \in 1..Len(rend.loaded) : rend.loaded[i] = <<"src/app/app", ".ts">>
    /\ rend.pc = "returned" =>
         /\ rend.result # render404
         /\ rend.loaded = << <<"src/app/app", ".ts">> >>

\* render('') has returned the app page in a project whose route table has
\* the route home, with its template on disk
C22_Witness ==
  /\ rend.pc = "returned" /\ rend.path = <<>>
  /\ RoutesHas(routes, <<"home">>)
  /\ <<"src/routes/home/home", ".html">> \in files
  /\ rend.loaded = << <<"src/app/app", ".ts">> >>

-----------------------------------------------------------------------------
(* Cache warming over the projects and route tables of the render model *)

\* the route tables as discovery leaves them, before any warming
DiscoveredTables == {table \in RouteTables : ~RoutesHas(table, Root)}

InitWarm ==
  /\ options \in [cacheEnabled : BOOLEAN]
  /\ routes \in DiscoveredTables
  /\ ssrCache = EmptyMap
  /\ now = 0
  /\ phase = "created"
  /\ warmQueue = <<>>
  /\ reqs = [r \in Req |-> NoReq]
  /\ warmed = {}
  /\ seen = {}
  /\ warmLog = <<>>
  /\ scan = NoScan
  /\ dev = NoDev
  /\ files \in Projects
  /\ rend = NoRender
  /\ call = NoCall

NextWarm == StartWarming \/ WarmOne \/ Listen

SpecWarm == InitWarm /\ [][NextWarm]_vars

-----------------------------------------------------------------------------
(* Properties of cache warming and of the handler's error path *)

\* the routes discovery found: the table without the root entry
C13_Discovered == {i \in 1..Len(routes) : routes[i].path # Root}

\* the render of the path throws: the path is the root or names a route, and
\* the template that goes with the component is not on disk
C12_CannotRender(path) ==
  LET known == {i \in 1..Len(routes) : routes[i].path = path}
      component == IF path = Root THEN AppComponent
                   ELSE routes[CHOOSE i \in known : TRUE].component
  IN  (SubSeq(component, 1, Len(component) - 1) \o <<".html">>) \notin files

\* C12: the warming loop renders each of its paths once, in order, with the
\* empty context; a path whose render throws gets no cache entry, the paths
\* after it are still rendered and stored, and the loop runs to its end (the
\* server goes on to listen) whatever throws.
C12_WarmingSkipsFailures ==
  phase \in {"warming", "listening"} /\ options.cacheEnabled =>
    /\ Len(warmLog) + Len(warmQueue) = Len(routes)
    /\ \A i \in 1..Len(warmLog) :
         /\ warmLog[i].path = routes[i].path
         /\ warmLog[i].context = [params |-> EmptyMap, query |-> EmptyMap, headers |-> EmptyMap]
         /\ warmLog[i].stored = ~C12_CannotRender(routes[i].path)
         /\ warmLog[i].stored <=> routes[i].path \in DOMAIN ssrCache
    /\ \A i \in 1..Len(warmQueue) : warmQueue[i] = routes[Len(warmLog) + i].path
    /\ DOMAIN ssrCache \subseteq {warmLog[i].path : i \in 1..Len(warmLog)}

\* the server listens after a warming loop in which a render threw and a later
\* path was stored
C12_Witness ==
  /\ phase = "listening"
  /\ \E i, j \in 1..Len(warmLog) :
       /\ i < j
       /\ ~warmLog[i].stored /\ warmLog[i].path \notin DOMAIN ssrCache
       /\ warmLog[j].stored /\ warmLog[j].path \in DOMAIN ssrCache

\* C13: warming over a table of N discovered routes leaves at most N entries
\* in the cache.
C13_WarmingAtMostNEntries ==
  Cardinality(DOMAIN ssrCache) <= Cardinality(C13_Discovered)

\* C14: every failure that is absorbed leaves a log record where it is
\* absorbed; for the warming loop, every turn whose render threw has logged.
C14_AbsorbedFailuresAreLogged ==
  \A i \in 1..Len(warmLog) : ~warmLog[i].stored => warmLog[i].logged # <<>>

\* C17: the route table stays as construction left it, and none of its keys
\* has a leading slash.
C17_RouteTableImmutable ==
  /\ routes = DiscoveredRoutes
  /\ \A i \in 1..Len(routes) : routes[i].path = <<>> \/ Head(routes[i].path) # "/"

\* C20: when render throws for a request, the handler answers that request
\* with status 500 after its one call of render, writes no cache entry, and
\* leaves every other request as it is.
C20_Step(r) ==
  (Rendered(r) /\ RenderOutcome(routes, reqs[r].path).kind = "throw") =>
    /\ reqs'[r].status = 500
    /\ reqs'[r].body = ErrorPage
    /\ reqs[r].renders = 1 /\ reqs'[r].renders = 1
    /\ ~reqs'[r].fromCache
    /\ ssrCache' = ssrCache
    /\ \A other \in Req \ {r} : reqs'[other] = reqs[other]

C20_RenderErrorIs500 == [][\A r \in Req : C20_Step(r)]_vars

\* a GET for /docs, whose template is missing, has been answered with 500 and
\* the cache holds no entry for it
C20_Witness ==
  \E r \in Req :
    /\ reqs[r].pc = "done" /\ reqs[r].path = <<"/", "docs">>
    /\ reqs[r].method = "GET" /\ reqs[r].search = <<>>
    /\ reqs[r].status = 500 /\ reqs[r].renders = 1
    /\ options.cacheEnabled
    /\ <<"/", "docs">> \notin DOMAIN ssrCache

\* a request for a page: one that is not answered before the caching layer
C21_PageRequest(req) == req.pc # "idle" /\ ~ServedBeforeRender(req.path)

\* C21: with cacheEnabled false the cache is never read or written:
\* pre-warming is skipped (no turn of the loop, the route table as discovery
\* left it), every page request calls render and none is answered from the
\* cache, and the cache is empty in every reachable state.
C21_DisabledCacheUntouched ==
  ~options.cacheEnabled =>
    /\ ssrCache = EmptyMap
    /\ phase \in {"created", "listening"}
    /\ warmLog = <<>> /\ warmQueue = <<>> /\ warmed = {}
    /\ routes = DiscoveredRoutes
    /\ \A r \in Req :
         C21_PageRequest(reqs[r]) => ~reqs[r].fromCache /\ reqs[r].renders = 1

\* with caching disabled, a cacheable request for a page that was asked for
\* before has been rendered again and answered
C21_Witness ==
  /\ ~options.cacheEnabled
  /\ \E r \in Req :
       /\ reqs[r].pc = "done" /\ reqs[r].status = 200
       /\ IsCacheable(reqs[r]) /\ ~reqs[r].first
       /\ reqs[r].path = <<"/", "about">>
       /\ reqs[r].renders = 1

\* every key of the route table has had its turn in the warming loop
C30_AllAttempted ==
  /\ warmQueue = <<>>
  /\ options.cacheEnabled =>
       /\ Len(warmLog) = Len(routes)
       /\ \A i \in 1..Len(routes) : warmLog[i].path = routes[i].path

C30_Step ==
  /\ (\E r \in Req : Began(r)) => phase = "listening" /\ C30_AllAttempted
  /\ (phase # "listening" /\ phase' = "listening") => C30_AllAttempted
  /\ phase' # "listening" => \A r \in Req : reqs'[r].pc = "idle"
  /\ ssrCache' # ssrCache =>
       \/ phase = "warming" /\ phase' = "warming"
       \/ phase = "listening" /\ \E r \in Req : reqs'[r] # reqs[r]

\* C30: no request is handled before pre-warming has finished: the listener
\* starts only when the warming loop has attempted every key of the route
\* table, every call of handler comes after that, and between the end of the
\* loop and the first request nothing changes the cache (only the loop,
\* before the listener, and the handling of a request, after it, do).
C30_ListenAfterWarming == [][C30_Step]_vars

\* a request is being handled after a warm-up in which one render failed
C30_Witness ==
  /\ options.cacheEnabled /\ phase = "listening"
  /\ \E i \in 1..Len(warmLog) : ~warmLog[i].stored
  /\ \E i \in 1..Len(warmLog) : warmLog[i].stored
  /\ \E r \in Req : reqs[r].pc = "done" /\ reqs[r].fromCache /\ reqs[r].first

\* the component whose page render(path) gives, <<>> for the 404 document
C23_ComponentFor(path) ==
  LET key == IF path # <<>> /\ path[1] = "/" THEN SubSeq(path, 2, Len(path)) ELSE path
  IN  IF key = <<>> \/ path = Root THEN AppComponent
      ELSE IF \E i \in 1..Len(DiscoveredRoutes) : DiscoveredRoutes[i].path = key
      THEN DiscoveredRoutes[CHOOSE i \in 1..Len(DiscoveredRoutes) :
                              DiscoveredRoutes[i].path = key].component
      ELSE <<>>

\* content is the whole of what one finished render of path gives, after both
\* injections: the page of that path's component (or the 404 document), its
\* own client script or none, the images marked lazy
C23_Complete(path, content) ==
  /\ DOMAIN content = {"html", "lazyImages"} /\ content.lazyImages
  /\ LET inner == content.html
         page == IF "clientScript" \in DOMAIN inner THEN inner.html ELSE inner
     IN  /\ DOMAIN page = {"kind", "component"}
         /\ page.kind \in {"page", "notfound"}
         /\ page.component = C23_ComponentFor(path)
         /\ "clientScript" \in DOMAIN inner =>
              C23_ComponentFor(path) = <<"src/routes/about/about", ".ts">>

C23_Step(r) ==
  reqs'[r] # reqs[r] =>
    /\ \A other \in Req \ {r} : reqs'[other] = reqs[other]
    /\ UNCHANGED <<options, routes, files, phase, now>>
    /\ LET path == IF reqs[r].pc = "idle" THEN reqs'[r].path ELSE reqs[r].path
       IN  \A key \in (DOMAIN ssrCache \cup DOMAIN ssrCache') \ {path} :
             /\ key \in DOMAIN ssrCache /\ key \in DOMAIN ssrCache'
             /\ ssrCache'[key] = ssrCache[key]
    /\ Rendered(r) /\ reqs[r].path \in DOMAIN ssrCache' /\ ssrCache' # ssrCache =>
         ssrCache'[reqs[r].path].content = reqs'[r].body

\* C23: under any interleaving of the requests in flight, a step of one
\* request changes nothing of another request and, of the state the requests
\* share, only the cache, and there only the entry of its own path, in one
\* step (lookup with eviction, or store); every entry of the cache is the
\* complete final HTML of one finished render of its own path, never a partial
\* value and never the HTML of another path.
C23_EntriesAreWholeRenders ==
  /\ [](\A path \in DOMAIN ssrCache : C23_Complete(path, ssrCache[path].content))
  /\ [][\A r \in Req : C23_Step(r)]_vars

\* two requests for different pages are awaiting their renders while the cache
\* holds the entry of one of the two pages
C23_Witness ==
  /\ reqs["r1"].pc = "render" /\ reqs["r2"].pc = "render"
  /\ reqs["r1"].path = <<"/", "about">> /\ reqs["r2"].path = Root
  /\ IsCacheable(reqs["r1"]) /\ IsCacheable(reqs["r2"])
  /\ <<"/", "about">> \in DOMAIN ssrCache

C29_Step(r) ==
  /\ ( /\ options.cacheEnabled /\ Began(r) /\ IsCacheable(reqs'[r])
       /\ ~ServedBeforeRender(reqs'[r].path)
       /\ reqs'[r].path \notin DOMAIN ssrCache )
     => reqs'[r].pc = "render" /\ reqs'[r].renders = 1 /\ ssrCache' = ssrCache
  /\ ( /\ options.cacheEnabled /\ Rendered(r) /\ IsCacheable(reqs[r])
       /\ reqs'[r].status = 200 )
     => /\ DOMAIN ssrCache' = DOMAIN ssrCache \cup {reqs[r].path}
        /\ ssrCache'[reqs[r].path].timestamp = now
        /\ ssrCache'[reqs[r].path].content = reqs'[r].body
        /\ \A key \in DOMAIN ssrCache \ {reqs[r].path} : ssrCache'[key] = ssrCache[key]

\* C29: a cacheable request that finds no entry for its path goes to render
\* whether or not another request for the path is being rendered (misses are
\* not coalesced), and every render that completes overwrites the entry of
\* its path with its own HTML and the time of its completion: the entry left
\* is that of the render that completed last, also when it started first.
C29_LastCompletionWins == [][\A r \in Req : C29_Step(r)]_vars

\* two cacheable requests for /about both missed; the one that began second
\* has completed and stored its entry at an earlier time, the one that began
\* first is still awaiting its render
C29_Witness ==
  \E r, other \in Req :
    /\ r # other /\ options.cacheEnabled
    /\ reqs[r].path = <<"/", "about">> /\ reqs[other].path = <<"/", "about">>
    /\ IsCacheable(reqs[r]) /\ IsCacheable(reqs[other])
    /\ reqs[r].first /\ reqs[r].pc = "render" /\ reqs[r].renders = 1
    /\ ~reqs[other].first /\ reqs[other].pc = "done" /\ reqs[other].renders = 1
    /\ <<"/", "about">> \in DOMAIN ssrCache
    /\ ssrCache[<<"/", "about">>].timestamp < now

-----------------------------------------------------------------------------
(* Properties of the calls the template engine makes *)

\* the object passed for the context
ContextObject(context) == [t |-> "object", context |-> context]

\* the argument tokens as they are written in the units that call a function
C18_WrittenArgs(piece) ==
  IF piece.text = Unit(<<"greet", "(", "'", "World", "'", ")">>)
  THEN <<ArgToken(<<"'", "World", "'">>, "quoted", Str(<<"World">>))>>
  ELSE IF piece.text = Unit(<<"greet", "(", "query", ".", "q", ",", " ", "4", "2", ")">>)
  THEN <<ContextToken("query", <<"q">>), ArgToken(<<"4", "2">>, "number", Num(42, 0))>>
  ELSE IF <<piece>> = ExampleTemplate THEN ExampleArgs
  ELSE <<>>

\* C18: every component function a unit calls receives the values of the
\* written arguments, in their order, and then the context of the render as
\* one more, last argument; with no written arguments the context is the only
\* argument.
C18_ContextIsLastArgument ==
  Returned("processTemplate") =>
    LET called == C5_CalledPieces(call.parts)
    IN  /\ Len(call.result.calls) = Len(called)
        /\ \A i \in 1..Len(called) :
             LET written == C18_WrittenArgs(called[i])
                 argv == call.result.calls[i].argv
             IN  /\ Len(argv) = Len(written) + 1
                 /\ \A k \in 1..Len(written) : argv[k] = C9_Value(written[k], call.context)
                 /\ argv[Len(argv)] = ContextObject(call.context)

\* greet(query.q, 42) and then appPage() have been called in a render whose
\* query has q
C18_Witness ==
  /\ Returned("processTemplate")
  /\ call.context = SomeContext
  /\ Len(call.result.calls) = 2
  /\ call.result.calls[1].argv = <<Str(<<"Q">>), Num(42, 0), ContextObject(SomeContext)>>
  /\ call.result.calls[2].func = <<"appPage">>
  /\ call.result.calls[2].argv = <<ContextObject(SomeContext)>>

-----------------------------------------------------------------------------
(* processTemplate step by step: the loop, and the calls it awaits *)

\* A run of processTemplate: out is result, lastIndex the place the next
\* regex.exec starts at, unit the number of units matched so far, inflight the
\* calls of component functions that have not settled, events the history of
\* the calls' starts and settlements.
NewRun(parts, component, context) ==
  [op |-> "processTemplate loop", pc |-> "running", parts |-> parts,
   html |-> Join(TextsOf(parts), <<>>), component |-> component, context |-> context,
   lastIndex |-> 1, out |-> <<>>, unit |-> 0, inflight |-> <<>>, events |-> <<>>]

InitTemplate ==
  /\ options = [cacheEnabled |-> FALSE]
  /\ routes = DiscoveredRoutes
  /\ ssrCache = EmptyMap
  /\ now = 0
  /\ phase = "created"
  /\ warmQueue = <<>>
  /\ reqs = [r \in Req |-> NoReq]
  /\ warmed = {}
  /\ seen = {}
  /\ warmLog = <<>>
  /\ scan = NoScan
  /\ dev = NoDev
  /\ files = Files
  /\ rend = NoRender
  /\ \E parts \in SeqsUpTo(Pieces, MaxPieces), component \in Components :
       call = NewRun(parts, component, EmptyContext)

LoopRunsOnUnawaited(run) == TRUE

\* index.ts:174: await func(...args, context) suspends the loop until the
\* call has settled
LoopRuns(run) == run.inflight = <<>>

\* index.ts:159-183: regex.exec and the turn of the loop up to the call of the
\* component function, or the whole turn for a unit that calls none; after the
\* last match the rest of the html is appended and the result returned.
TemplateStep ==
  /\ call.pc = "running"
  /\ LoopRuns(call)
  /\ LET match == NextUnit(call.html, call.lastIndex)
         unit == SubSeq(call.html, match.start, match.end)
         this == EvaluateUnit(unit, call.component, call.context)
         before == SubSeq(call.html, call.lastIndex, match.start - 1)
         k == call.unit + 1
     IN  IF ~match.found
         THEN call' = [call EXCEPT !.pc = "returned",
                         !.out = @ \o SubSeq(call.html, call.lastIndex, Len(call.html))]
         ELSE IF this.calls # <<>>
         THEN call' = [call EXCEPT !.out = @ \o before, !.unit = k,
                         !.lastIndex = match.end + 1,
                         !.inflight = Append(@, [unit |-> k, start |-> match.start,
                                                 func |-> this.calls[1].func, out |-> this.out]),
                         !.events = Append(@, [kind |-> "start", unit |-> k,
                                               start |-> match.start])]
         ELSE call' = [call EXCEPT !.out = @ \o before \o this.out, !.unit = k,
                         !.lastIndex = match.end + 1]
  /\ UNCHANGED <<serverVars, scan, dev, files, rend>>

\* index.ts:174-175, 185-187: a call settles; its value, or the unit's text
\* when it threw or rejected, is appended
TemplateSettle ==
  /\ call.pc = "running"
  /\ call.inflight # <<>>
  /\ \E i \in 1..Len(call.inflight) :
       call' = [call EXCEPT
                  !.out = @ \o call.inflight[i].out,
                  !.inflight = SubSeq(@, 1, i - 1) \o SubSeq(@, i + 1, Len(@)),
                  !.events = Append(@, [kind |-> "settle", unit |-> call.inflight[i].unit,
                                        start |-> call.inflight[i].start])]
  /\ UNCHANGED <<serverVars, scan, dev, files, rend>>

NextTemplate == TemplateStep \/ TemplateSettle

SpecTemplate == InitTemplate /\ [][NextTemplate]_vars

\* C11: within one run of processTemplate the calls of component functions
\* start in the textual order of their units, and a call starts only when
\* every call started before it has settled: at most one call is in flight.
C11_SequentialEvaluation ==
  /\ Len(call.inflight) <= 1
  /\ \A i \in 1..Len(call.events) :
       LET e == call.events[i]
       IN  IF i % 2 = 1
           THEN /\ e.kind = "start"
                /\ \A j \in 1..(i - 1) : call.events[j].start < e.start
           ELSE /\ e.kind = "settle"
                /\ e.unit = call.events[i - 1].unit
  /\ call.pc = "returned" =>
       /\ call.inflight = <<>>
       /\ Len(call.events) = 2 * Len(C5_CalledPieces(call.parts))
       /\ call.out = processTemplate(call.html, call.component, call.context).out

\* a template with three units that call functions, the first of them
\* asynchronous, has been processed
C11_Witness ==
  /\ call.pc = "returned"
  /\ Len(call.events) = 6
  /\ call.parts[1].called = <<"appPage">>
  /\ call.events[2] = [kind |-> "settle", unit |-> 1, start |-> 1]
  /\ call.events[3].kind = "start" /\ call.events[3].unit = 2

-----------------------------------------------------------------------------
(* Route discovery: discoverRoutes and scanRoutesDirectory over a directory *)
(* tree                                                                     *)

\* The directories a tree may have under the routes directory <<>>, each named
\* by the names on its path, in the order readdirSync lists them.
TreeDirs ==
  << <<"about">>, <<"blog">>, <<"blog", "post">>, <<"blog", "post", "deep">>, <<"docs">> >>

RoutesDir == <<>>

\* the directories listed in dir, in listing order
SubDirs(dir) ==
  SelectSeq(TreeDirs, LAMBDA d : Len(d) = Len(dir) + 1 /\ SubSeq(d, 1, Len(dir)) = dir)

\* File names, the extensions as pieces of their own.
FileLists ==
  { <<>>,
    << <<"page", ".ts">> >>,
    << <<"page", ".client", ".ts">>, <<"page", ".ts">> >>,
    << <<"page", ".client", ".ts">> >>,
    << <<"page", ".client", ".js">> >>,
    << <<"page", ".client", ".js">>, <<"page", ".js">> >>,
    << <<"README", ".md">>, <<"b", ".js">>, <<"a", ".ts">> >> }

\* A directory is absent, or present and unreadable (readdirSync throws), or
\* present with its files.
Absent == [exists |-> FALSE, readable |-> FALSE, files |-> <<>>]

Unreadable == [exists |-> TRUE, readable |-> FALSE, files |-> <<>>]

DirStates ==
  {Absent, Unreadable} \cup {[exists |-> TRUE, readable |-> TRUE, files |-> f] : f \in FileLists}

AllDirs == {RoutesDir} \cup {TreeDirs[i] : i \in 1..Len(TreeDirs)}

ParentOf(dir) == SubSeq(dir, 1, Len(dir) - 1)

\* the trees: a directory is present only in a present, readable directory
Trees ==
  { tree \in [AllDirs -> DirStates] :
      /\ tree[RoutesDir].files \in {<<>>, << <<"page", ".ts">> >>}
      /\ \A d \in AllDirs \ {RoutesDir} :
           tree[d].exists => tree[ParentOf(d)].exists /\ tree[ParentOf(d)].readable }

\* index.ts:51-53: the filter of the route files
Qualifies(file) ==
  /\ EndsWith(file, <<".ts">>) \/ EndsWith(file, <<".js">>)
  /\ ~EndsWith(file, <<".client", ".ts">>)

\* the names on the path joined with "/": routePath, the key of the route
UrlPathOf(dir) == Join([i \in 1..Len(dir) |-> <<dir[i]>>], <<"/">>)

RECURSIVE Concat(_)
Concat(pieces) == IF pieces = <<>> THEN "" ELSE Head(pieces) \o Concat(Tail(pieces))

\* join(relative(baseDir, fullPath), routeFiles[0])
ComponentOf(dir, file) ==
  << "src/routes/" \o Concat(UrlPathOf(dir)) \o "/" \o Concat(SubSeq(file, 1, Len(file) - 1)),
     file[Len(file)] >>

\* What a scan has done so far: the route table, the errors logged (the
\* directory whose scan caught the error, the directory whose reading failed),
\* and the directories whose listing was read for route files.
NoScanResult == [routes |-> <<>>, logs |-> <<>>, visited |-> <<>>]

RECURSIVE scanRoutesDirectory(_, _, _)
RECURSIVE ScanItems(_, _, _, _)
\* index.ts:45-68: the loop over the items of dir, from the directories items
\* on; files are passed over.  readdirSync(fullPath) of an unreadable
\* subdirectory throws out of the loop into the catch of index.ts:69.
ScanItems(tree, dir, items, acc) ==
  IF items = <<>> THEN acc
  ELSE LET item == Head(items)
           routeFiles == SelectSeq(tree[item].files, Qualifies)
           visited == [acc EXCEPT !.visited = Append(@, item)]
           withRoute ==
             IF routeFiles # <<>>
             THEN [visited EXCEPT !.routes =
                     RoutesSet(@, UrlPathOf(item),
                               [path |-> UrlPathOf(item),
                                component |-> ComponentOf(item, routeFiles[1])])]
             ELSE visited
       IN  IF ~tree[item].exists THEN ScanItems(tree, dir, Tail(items), acc)
           ELSE IF ~tree[item].readable
           THEN [acc EXCEPT !.logs = Append(@, [caughtIn |-> dir, failed |-> item])]
           ELSE ScanItems(tree, dir, Tail(items),
                          scanRoutesDirectory(tree, item, withRoute))

\* index.ts:41-72
scanRoutesDirectory(tree, dir, acc) ==
  IF ~tree[dir].readable
  THEN [acc EXCEPT !.logs = Append(@, [caughtIn |-> dir, failed |-> dir])]
  ELSE ScanItems(tree, dir, SubDirs(dir), acc)

\* index.ts:34-39
discoverRoutes(tree) ==
  IF ~tree[RoutesDir].exists THEN NoScanResult
  ELSE scanRoutesDirectory(tree, RoutesDir, NoScanResult)

InitDiscover ==
  /\ options = [cacheEnabled |-> FALSE]
  /\ routes = <<>>
  /\ ssrCache = EmptyMap
  /\ now = 0
  /\ phase = "constructing"
  /\ warmQueue = <<>>
  /\ reqs = [r \in Req |-> NoReq]
  /\ warmed = {}
  /\ seen = {}
  /\ warmLog = <<>>
  /\ \E tree \in Trees : scan = [pc |-> "called", tree |-> tree, result |-> NoScanResult]
  /\ dev = NoDev
  /\ files = Files
  /\ rend = NoRender
  /\ call = NoCall

\* index.ts:28-32: the constructor: discovery runs to its end before it returns
Construct ==
  /\ scan.pc = "called"
  /\ scan' = [scan EXCEPT !.pc = "returned", !.result = discoverRoutes(scan.tree)]
  /\ routes' = discoverRoutes(scan.tree).routes
  /\ phase' = "created"
  /\ UNCHANGED <<dev, options, ssrCache, now, warmQueue, reqs, warmed, seen, warmLog, files, rend, call>>

NextDiscover == Construct

SpecDiscover == InitDiscover /\ [][NextDiscover]_vars

-----------------------------------------------------------------------------
(* Properties of route discovery *)

\* the directory is in the tree and so is every directory above it, readable
C15_Reachable(tree, dir) ==
  \A n \in 0..(Len(dir) - 1) :
    tree[SubSeq(dir, 1, n)].exists /\ tree[SubSeq(dir, 1, n)].readable

C16_Qualifying(file) ==
  /\ file[Len(file)] \in {".ts", ".js"}
  /\ ~(Len(file) >= 2 /\ file[Len(file) - 1] = ".client" /\ file[Len(file)] = ".ts")

C16_HasRoute(dir) == \E i \in 1..Len(routes) : routes[i].path = UrlPathOf(dir)

\* C15: when the reading of a directory fails during discovery, the error is
\* logged, the constructor returns, and every sibling of the unreadable
\* directory is still scanned: a sibling that holds a route file has its route.
C15_SiblingsStillScanned ==
  scan.pc = "returned" =>
    \A d \in AllDirs \ {RoutesDir} :
      (scan.tree[d].exists /\ ~scan.tree[d].readable /\ C15_Reachable(scan.tree, d)) =>
        /\ \E i \in 1..Len(scan.result.logs) : scan.result.logs[i].failed = d
        /\ \A sibling \in AllDirs \ {RoutesDir, d} :
             ( /\ ParentOf(sibling) = ParentOf(d)
               /\ scan.tree[sibling].exists /\ scan.tree[sibling].readable
               /\ \E i \in 1..Len(scan.tree[sibling].files) :
                    C16_Qualifying(scan.tree[sibling].files[i]) )
             => C16_HasRoute(sibling)

\* every directory of the tree can be read
C16_AllReadable(tree) == \A d \in AllDirs : tree[d].exists => tree[d].readable

\* one entry at most per urlPath, each for a directory of the tree; a directory
\* below the routes directory has an entry exactly when it holds a qualifying
\* file, with the first such file of its listing as the component
C16_Entries ==
  /\ \A i, j \in 1..Len(routes) : routes[i].path = routes[j].path => i = j
  /\ \A i \in 1..Len(routes) :
       \E d \in AllDirs \ {RoutesDir} : scan.tree[d].exists /\ routes[i].path = UrlPathOf(d)
  /\ \A d \in AllDirs \ {RoutesDir} :
       scan.tree[d].exists =>
         LET listing == scan.tree[d].files
             qualifying == {i \in 1..Len(listing) : C16_Qualifying(listing[i])}
             first == CHOOSE i \in qualifying : \A j \in qualifying : i <= j
         IN  /\ C16_HasRoute(d) <=> qualifying # {}
             /\ qualifying # {} =>
                  \E i \in 1..Len(routes) :
                    /\ routes[i].path = UrlPathOf(d)
                    /\ routes[i].component = ComponentOf(d, listing[first])

\* C16: after discovery over any directory tree, the table has one entry at
\* most per urlPath; a directory has an entry under its relative path exactly
\* when it holds a qualifying file (a .ts or .js file that is no .client.ts
\* file), with the first such file of its listing, a file on disk, as the
\* component; a directory without one has no entry, and the directories below
\* it have theirs all the same.
C16_OneRoutePerDirectory ==
  (scan.pc = "returned" /\ scan.tree[RoutesDir].exists) => C16_Entries

\* the same over the trees whose directories can all be read
C16_OverReadableTrees ==
  (scan.pc = "returned" /\ scan.tree[RoutesDir].exists /\ C16_AllReadable(scan.tree))
    => C16_Entries

\* a client-only companion: the client marker stands before the extension
C26_ClientCompanion(file) ==
  /\ Len(file) >= 2
  /\ file[Len(file) - 1] = ".client"
  /\ file[Len(file)] \in {".ts", ".js"}

C26_SourceFile(file) == file[Len(file)] \in {".ts", ".js"}

\* C26: a client-only companion file is never the component of a route, and
\* a directory whose only source files are client companions has no route.
C26_ClientFilesNeverRoutes ==
  scan.pc = "returned" =>
    \A d \in AllDirs \ {RoutesDir} :
      LET listing == scan.tree[d].files
          sources == {i \in 1..Len(listing) : C26_SourceFile(listing[i])}
      IN  /\ \A i \in 1..Len(routes), j \in sources :
               (routes[i].path = UrlPathOf(d) /\ C26_ClientCompanion(listing[j]))
                 => routes[i].component # ComponentOf(d, listing[j])
          /\ (scan.tree[d].exists /\ \A j \in sources : C26_ClientCompanion(listing[j]))
               => ~C16_HasRoute(d)

-----------------------------------------------------------------------------
(* The dev server: startDevServer, triggerBuild and the source watcher *)

MaxEvents == 4      \* events the watcher delivers

\* startDevServer at its first await, await triggerBuild(): the first build
\* is running.  pc is "initial" (the watcher is not yet set up), "watching"
\* or "exited"; running counts the calls of buildProject that have not
\* settled, builds those started, events the watcher's events handled (last
\* is the eventType of the latest);
\* during counts the events that came while the build now running ran, and
\* owed tells that an event came with no build started at it or after it.
\* stage is where the running build stands: "copy" (copyAndCompileFiles,
\* cli.ts:592), "bundle" (bundleClientFiles, cli.ts:593) or "entry" (the
\* server entry and the routes directory, cli.ts:598-602).
InitDev ==
  /\ options = [cacheEnabled |-> FALSE]
  /\ routes = <<>>
  /\ ssrCache = EmptyMap
  /\ now = 0
  /\ phase = "constructing"
  /\ warmQueue = <<>>
  /\ reqs = [r \in Req |-> NoReq]
  /\ warmed = {}
  /\ seen = {}
  /\ warmLog = <<>>
  /\ scan = NoScan
  /\ dev = [pc |-> "initial", building |-> TRUE, pending |-> FALSE, running |-> 1,
            stage |-> "copy", builds |-> 1, events |-> 0, last |-> "none",
            during |-> 0, owed |-> FALSE]
  /\ files = Files
  /\ rend = NoRender
  /\ call = NoCall

BusyNever(d) == FALSE

\* cli.ts:460: if (building)
Busy(d) == d.building

\* cli.ts:459-466: triggerBuild up to its await of buildProject
triggerBuild(d) ==
  IF Busy(d)
  THEN [d EXCEPT !.pending = TRUE]
  ELSE [d EXCEPT !.building = TRUE, !.running = @ + 1, !.builds = @ + 1,
                 !.stage = "copy", !.during = 0, !.owed = FALSE]

\* cli.ts:481-484: the watcher delivers a change or rename event
WatchEvent ==
  /\ dev.pc = "watching"
  /\ dev.events < MaxEvents
  /\ \E eventType \in {"change", "rename"} :
       dev' = triggerBuild([dev EXCEPT !.events = @ + 1, !.last = eventType,
                                       !.owed = TRUE,
                                       !.during = IF dev.running > 0 THEN @ + 1 ELSE @])
  /\ UNCHANGED <<serverVars, scan, files, rend, call>>

\* cli.ts:592-593: an awaited step of buildProject is done, the next begins
BuildStep ==
  /\ dev.pc \in {"initial", "watching"}
  /\ dev.running > 0
  /\ dev.stage \in {"copy", "bundle"}
  /\ dev' = [dev EXCEPT !.stage = IF @ = "copy" THEN "bundle" ELSE "entry"]
  /\ UNCHANGED <<serverVars, scan, files, rend, call>>

\* cli.ts:467-476: buildProject has resolved; the finally block, with the
\* follow-up call of triggerBuild when pending is set.  After the first build
\* startDevServer goes on and sets up the watcher (cli.ts:478-486).
BuildResolves ==
  /\ dev.pc \in {"initial", "watching"}
  /\ dev.running > 0
  /\ dev.stage = "entry"
  /\ LET settled == [dev EXCEPT !.pc = "watching", !.running = @ - 1, !.building = FALSE]
     IN  dev' = IF settled.pending
                THEN triggerBuild([settled EXCEPT !.pending = FALSE])
                ELSE settled
  /\ UNCHANGED <<serverVars, scan, files, rend, call>>

\* cli.ts:606-608: a step of the build has failed; buildProject's own catch
\* logs and calls process.exit(1), and the process with its flags is gone
BuildExits ==
  /\ dev.pc \in {"initial", "watching"}
  /\ dev.running > 0
  /\ dev' = [dev EXCEPT !.pc = "exited", !.running = 0, !.building = FALSE,
                        !.pending = FALSE]
  /\ UNCHANGED <<serverVars, scan, files, rend, call>>

NextDev == WatchEvent \/ BuildStep \/ BuildResolves \/ BuildExits

SpecDev == InitDev /\ [][NextDev]_vars

\* every build that was started settles: it resolves or it fails
SpecDevLive == SpecDev /\ WF_vars(BuildStep \/ BuildResolves \/ BuildExits)

-----------------------------------------------------------------------------
(* Properties of the dev server *)

\* C28: at most one build is in progress at any time; building is true
\* exactly while a call of buildProject has not settled, and pending is true
\* only then.
C28_OneBuildAtATime ==
  /\ dev.running <= 1
  /\ dev.building <=> dev.running = 1
  /\ dev.pending => dev.building /\ dev.running = 1
  /\ dev.builds <= dev.events + 1

\* two changes came during one build, which is still the only one running
C28_Witness ==
  /\ dev.pc = "watching" /\ dev.during >= 2
  /\ dev.building /\ dev.pending /\ dev.running = 1

\* C27: every change event is in the end followed by a build that starts at
\* the event or after it; no change is lost.
C27_EveryChangeIsBuilt == dev.owed ~> ~dev.owed

=============================================================================
